---- MODULE Spec2Model ----
(***************************************************************************)
(* Model of the approximate-integral core of survTMB:                      *)
(*   - the per-class caches behind entropy_term_integral<Type>::get_cached *)
(*     and integral_atomic<Type, Fam>::get_cached (src/src/snva-utils.cpp),*)
(*   - the unpacking of the raw variational parameter vector               *)
(*     (SNVA_MD_theta_DP_to_DP, SNVA_MD_theta_CP_trans_to_DP),             *)
(*   - the bounded skewness transform get_gamma,                           *)
(*   - the mode and curvature solver get_SNVA_mode_n_Hess<double>.         *)
(***************************************************************************)
EXTENDS Integers, Sequences, FiniteSets, Bags, TLC

(***************************************************************************)
(* Bounds of the model.                                                    *)
(***************************************************************************)
\* stand-in for GaussHermiteDataCachedMaxArg(), whose value is set in
\* gaus-hermite.h
n_cache == 2
\* worker threads of a parallel region besides the master thread
MaxWorkers == 1

(***************************************************************************)
(* The caches.  Every instantiation of get_cached has its own function     *)
(* local static array cached_values; two instantiations are modelled.      *)
(***************************************************************************)
Caches == {"entropy_term_integral<double>", "integral_atomic<double, mlogit_fam>"}

\* thread 0 is the master thread, the others exist inside a parallel region
Threads == 0..MaxWorkers

\* the values of the argument n that are tried: 0, the valid ones, one too large
ArgNs == 0..(n_cache + 1)

VARIABLES
  cached_values,  \* cached_values[c][idx]: 0 is an empty unique_ptr, k > 0 is
                  \* the k-th object constructed for that slot
  n_built,        \* n_built[c][idx]: how often new output_T ran for the slot
  in_parallel,    \* CppAD::thread_alloc::in_parallel()
  pc,             \* pc[t]: where thread t is inside get_cached
  arg,            \* arg[t]: the call thread t is making
  last            \* the call that ended last, and how it ended

cacheVars == <<cached_values, n_built, in_parallel, pc, arg, last>>

Slots == 0..(n_cache - 1)

NoCall == [cache |-> "none", n |-> 0, had |-> FALSE]
NoneEnded ==
  [t |-> 0, cache |-> "none", n |-> 0, had |-> FALSE, par |-> FALSE,
   kind |-> "none", inst |-> 0]

CacheInit ==
  /\ cached_values = [c \in Caches |-> [i \in Slots |-> 0]]
  /\ n_built = [c \in Caches |-> [i \in Slots |-> 0]]
  /\ in_parallel = FALSE
  /\ pc = [t \in Threads |-> "idle"]
  /\ arg = [t \in Threads |-> NoCall]
  /\ last = NoneEnded

\* if(n > n_cache or n == 0l) throw std::invalid_argument(...)
InvalidN_NoZero(n) == n > n_cache
InvalidN(n) == n > n_cache \/ n = 0

\* unsigned const idx = n - 1L;
Idx_Shifted(n) == n % n_cache
Idx(n) == n - 1

\* bool has_value = cached_values[idx].get();
HasValue_Never(c, idx) == FALSE
HasValue_OutsideParallel(c, idx) ==
  idx \in Slots /\ cached_values[c][idx] # 0 /\ ~in_parallel
HasValue(c, idx) == idx \in Slots /\ cached_values[c][idx] # 0

\* if(CppAD::thread_alloc::in_parallel()) throw std::runtime_error(...)
ThrowsInParallel_NoOpenMP == FALSE
ThrowsInParallel_Always == TRUE
ThrowsInParallel == in_parallel

\* whether the slot a call asks for held an object when the call was made
Populated(c, idx) == idx \in Slots /\ cached_values[c][idx] # 0

\* A thread exists when it is the master or a parallel region is active.
Running(t) == t = 0 \/ in_parallel

\* The call of thread t ends: by a throw or by returning object inst.
Ended(t, a, kind, inst) ==
  [t |-> t, cache |-> a.cache, n |-> a.n, had |-> a.had, par |-> in_parallel,
   kind |-> kind, inst |-> inst]

\* Entry of get_cached(n): the argument check, then the lookup of the slot
\* (lines 14-28 and 42-56).  The argument check touches nothing shared, so it
\* is one step with the read of cached_values[idx].
GetCached_Lookup(t, c, n) ==
  /\ Running(t)
  /\ pc[t] = "idle"
  /\ LET a == [cache |-> c, n |-> n, had |-> Populated(c, n - 1)]
     IN IF InvalidN(n)
          THEN /\ last' = Ended(t, a, "invalid_argument", 0)
               /\ UNCHANGED <<pc, arg>>
          ELSE IF HasValue(c, Idx(n))
            THEN /\ last' = Ended(t, a, "returned", cached_values[c][Idx(n)])
                 /\ UNCHANGED <<pc, arg>>
            ELSE /\ pc' = [pc EXCEPT ![t] = "check_parallel"]
                 /\ arg' = [arg EXCEPT ![t] = a]
                 /\ last' = last
  /\ UNCHANGED <<cached_values, n_built, in_parallel>>

\* The parallel-region check (lines 30-33 and 58-61, built with _OPENMP).
GetCached_CheckParallel(t) ==
  /\ pc[t] = "check_parallel"
  /\ IF ThrowsInParallel
       THEN /\ pc' = [pc EXCEPT ![t] = "idle"]
            /\ arg' = [arg EXCEPT ![t] = NoCall]
            /\ last' = Ended(t, arg[t], "runtime_error", 0)
       ELSE /\ pc' = [pc EXCEPT ![t] = "construct"]
            /\ UNCHANGED <<arg, last>>
  /\ UNCHANGED <<cached_values, n_built, in_parallel>>

\* cached_values[idx].reset(new output_T(...)); return *cached_values[idx];
GetCached_Construct(t) ==
  /\ pc[t] = "construct"
  /\ LET c == arg[t].cache
         idx == Idx(arg[t].n)
         obj == n_built[c][idx] + 1
     IN /\ n_built' = [n_built EXCEPT ![c][idx] = obj]
        /\ cached_values' = [cached_values EXCEPT ![c][idx] = obj]
        /\ last' = Ended(t, arg[t], "returned", obj)
  /\ pc' = [pc EXCEPT ![t] = "idle"]
  /\ arg' = [arg EXCEPT ![t] = NoCall]
  /\ UNCHANGED in_parallel

\* The master thread opens a parallel region between two of its calls.
EnterParallel ==
  /\ ~in_parallel
  /\ pc[0] = "idle"
  /\ in_parallel' = TRUE
  /\ UNCHANGED <<cached_values, n_built, pc, arg, last>>

\* The region ends at its barrier, when every thread has left get_cached.
LeaveParallel ==
  /\ in_parallel
  /\ \A t \in Threads : pc[t] = "idle"
  /\ in_parallel' = FALSE
  /\ UNCHANGED <<cached_values, n_built, pc, arg, last>>

(***************************************************************************)
(* Unpacking of the raw variational parameter vector.                      *)
(***************************************************************************)
\* largest random effect dimension and longest raw vector that are tried
MaxDim == 2
MaxLen == 8
\* the raw values are opaque numbers; two different ones are enough to tell
\* every position from every other over all the vectors tried
RawValues == {0, 1}

VARIABLES
  theta_VA,   \* the raw parameter vector handed to the unpack function
  rng_dim,    \* the random effect dimension handed to it
  u_out       \* what the call returned ("none" before the call)

unpackVars == <<theta_VA, rng_dim, u_out>>

VARIABLES
  gamma_calls,  \* the last two calls of get_gamma, newest first: input, value
  hess_call,    \* the last call of get_SNVA_mode_n_Hess: inputs and result
  int_call,     \* the integral_atomic object in use: its family and rule,
                \* the arguments of its calls and what they returned
  g_call,       \* the last call of the logistic integrand: the overload,
                \* its argument, the branch it took and its value
  off_call,     \* the last call of an integral with an offset: its
                \* arguments, what it passed on and what it returned
  va_call,      \* the evaluation of VA_worker::operator() made
  ent_call      \* the last call of entropy_term: its arguments and its
                \* constants

numVars ==
  <<gamma_calls, hess_call, int_call, g_call, off_call, va_call, ent_call>>
notCacheVars == <<unpackVars, numVars>>
notUnpackVars == <<cacheVars, numVars>>
notNumVars == <<cacheVars, unpackVars>>

vars == <<cached_values, n_built, in_parallel, pc, arg, last,
          theta_VA, rng_dim, u_out, gamma_calls, hess_call, int_call,
          g_call,
          off_call,
          va_call,
          ent_call>>

NoResult == [kind |-> "none"]

UnpackIdle ==
  /\ theta_VA = <<>>
  /\ rng_dim = 1
  /\ u_out = NoResult

NoHessCall == [made |-> FALSE]
NoIntCall == [forward |-> FALSE, reverse |-> FALSE]
NoGCall == [made |-> FALSE]
NoOffCall == [made |-> FALSE]
NoVACall == [made |-> FALSE]
NoEntCall == [made |-> FALSE]

NumIdle ==
  /\ gamma_calls = <<>>
  /\ hess_call = NoHessCall
  /\ int_call = NoIntCall
  /\ g_call = NoGCall
  /\ off_call = NoOffCall
  /\ va_call = NoVACall
  /\ ent_call = NoEntCall

(***************************************************************************)
(* Arithmetic of the numeric code is translated into expression trees, one *)
(* node per operation of the source, so that a translated function keeps   *)
(* the shape of its source and can be compared, or evaluated, afterwards.  *)
(***************************************************************************)
Val(x) == [op |-> "val", v |-> x]                      \* an input value
Lit(txt, M, E, inexact) ==                             \* a literal: M * 2^E
  [op |-> "lit", txt |-> txt, M |-> M, E |-> E, inexact |-> inexact]
Add(a, b) == [op |-> "add", a |-> a, b |-> b]
Sub(a, b) == [op |-> "sub", a |-> a, b |-> b]
Mul(a, b) == [op |-> "mul", a |-> a, b |-> b]
Div(a, b) == [op |-> "div", a |-> a, b |-> b]
Neg(a) == [op |-> "neg", a |-> a]
Fn(f, a) == [op |-> "call", f |-> f, a |-> a]          \* exp, sqrt, ...
Pow(a, b) == [op |-> "pow", a |-> a, b |-> b]          \* pow(a, b)
Var(name) == [op |-> "var", name |-> name]             \* a named constant
CondLt(a, b, x, y) ==                                  \* a < b ? x : y
  [op |-> "cond_lt", a |-> a, b |-> b, x |-> x, y |-> y]
CondGt(a, b, x, y) ==                                  \* a > b ? x : y
  [op |-> "cond_gt", a |-> a, b |-> b, x |-> x, y |-> y]
CondLe(a, b, x, y) ==                                  \* CondExpLe(a, b, x, y)
  [op |-> "cond_le", a |-> a, b |-> b, x |-> x, y |-> y]
CondGe(a, b, x, y) ==                                  \* CondExpGe(a, b, x, y)
  [op |-> "cond_ge", a |-> a, b |-> b, x |-> x, y |-> y]

\* Type(1.), Type(2.), Type(0.99527), M_PI, sqrt(M_PI)
one == Lit("1.", 1, 0, FALSE)
two == Lit("2.", 2, 0, FALSE)
Tpi == Lit("M_PI", 13176794, -22, TRUE)
sqrt_pi == Lit("sqrt(M_PI)", 14868420, -23, TRUE)

\* class get_gamma: Type const c1 = Type(0.99527), c2 = Type(2.) * c1
get_gamma_c1 == Lit("0.99527", 16697859, -24, TRUE)
get_gamma_c2_Single == get_gamma_c1
get_gamma_c2 == Mul(two, get_gamma_c1)

\* Type operator()(Type const gtrans) const {
\*   return c2 / (one + exp(-gtrans)) - c1; }
get_gamma(gtrans) ==
  Sub(Div(get_gamma_c2, Add(one, Fn("exp", Neg(gtrans)))), get_gamma_c1)

\* gamma_to_nu (gamma-to-nu.h): the map from the skewness to nu
gamma_to_nu(gv) == Fn("gamma_to_nu", gv)

\* *(t + k) for the pointer Type const *t = &theta_VA[0] + t
At(theta, k) == theta[k + 1]

\* (rng_dim * (rng_dim + 1L)) / 2L
n_lambda_of(dim) == (dim * (dim + 1)) \div 2

\* survTMB::get_vcov_from_trian(t, dim) (utils.h): the dim x dim covariance
\* matrix decoded from the dim (dim + 1) / 2 packed values at t.  Its
\* arithmetic is kept symbolic: every entry names the packed values it is
\* decoded from.
get_vcov_from_trian(theta, t, dim) ==
  [i \in 0..(dim - 1), j \in 0..(dim - 1) |->
     [op |-> "vcov", packed |-> SubSeq(theta, t + 1, t + n_lambda_of(dim)),
      row |-> i, col |-> j]]

\* unsigned const n_groups = theta_VA.size() / (
\*   rng_dim * 2L + (rng_dim * (rng_dim + 1L)) / 2L);
DP_n_groups_NotHalved(theta, dim) ==
  Len(theta) \div (dim * 2 + dim * (dim + 1))
DP_n_groups(theta, dim) ==
  Len(theta) \div (dim * 2 + (dim * (dim + 1)) \div 2)

\* t += (rng_dim * (rng_dim + 1L)) / 2L;
DP_skip_lambda_Forgotten(t, dim) == t
DP_skip_lambda(t, dim) == t + (dim * (dim + 1)) \div 2

\* The loop over the groups of SNVA_MD_theta_DP_to_DP, from group g with the
\* read pointer at offset t; the result is the three vectors that are built.
RECURSIVE DP_loop(_, _, _, _, _, _)
DP_loop(theta, dim, n_groups, g, t, out) ==
  IF g >= n_groups THEN out
  ELSE
    LET mu_vec == [i \in 1..dim |-> At(theta, t + (i - 1))]
        t1 == t + dim
        lambda == get_vcov_from_trian(theta, t1, dim)
        t2 == DP_skip_lambda(t1, dim)
        rho_vec == [i \in 1..dim |-> At(theta, t2 + (i - 1))]
        t3 == t2 + dim
    IN DP_loop(theta, dim, n_groups, g + 1, t3,
               [va_mus |-> Append(out.va_mus, mu_vec),
                va_lambdas |-> Append(out.va_lambdas, lambda),
                va_rhos |-> Append(out.va_rhos, rho_vec)])

\* SNVA_MD_input<Type> out; (three empty vectors)
SNVA_MD_input == [va_mus |-> <<>>, va_lambdas |-> <<>>, va_rhos |-> <<>>]

SNVA_MD_theta_DP_to_DP(theta, dim) ==
  DP_loop(theta, dim, DP_n_groups(theta, dim), 0, 0, SNVA_MD_input)

\* n_per_g = n_mu + n_lambda + rng_dim with n_mu = rng_dim
CP_n_per_g(dim) == dim + (dim * (dim + 1)) \div 2 + dim

\* n_groups = theta_VA.size() / n_per_g
CP_n_groups(theta, dim) == Len(theta) \div CP_n_per_g(dim)

\* for(i) gamma[i] = trans_g(*gi++);  (gi starts at offset gi0)
\* a loop whose gi starts in the first block whatever the group
RECURSIVE CP_gammas_FirstGroup(_, _, _, _, _)
CP_gammas_FirstGroup(theta, dim, gi0, i, gamma) ==
  IF i >= dim THEN gamma
  ELSE CP_gammas_FirstGroup(theta, dim, gi0, i + 1,
         [gamma EXCEPT
            ![i + 1] = get_gamma(Val(At(theta, (gi0 % CP_n_per_g(dim)) + i)))])
RECURSIVE CP_gammas(_, _, _, _, _)
CP_gammas(theta, dim, gi0, i, gamma) ==
  IF i >= dim THEN gamma
  ELSE CP_gammas(theta, dim, gi0, i + 1,
                 [gamma EXCEPT ![i + 1] = get_gamma(Val(At(theta, gi0 + i)))])

\* rhos[i] = sqrt_pi * nu[i] / omega[i] / sqrt(two - Tpi * nu[i] * nu[i]);
\* it is computed before nu[i] *= omega[i].
CP_rho_AfterScaling(nu_i, omega_i) ==
  Div(Div(Mul(sqrt_pi, Mul(nu_i, omega_i)), omega_i),
      Fn("sqrt", Sub(two, Mul(Mul(Tpi, Mul(nu_i, omega_i)),
                              Mul(nu_i, omega_i)))))
CP_rho(nu_i, omega_i) ==
  Div(Div(Mul(sqrt_pi, nu_i), omega_i),
      Fn("sqrt", Sub(two, Mul(Mul(Tpi, nu_i), nu_i))))

\* for(i){ nu[i] = gamma_to_nu(gamma[i]); omega[i] = ...; rhos[i] = ...;
\*         nu[i] *= omega[i]; }
RECURSIVE CP_intermediaries(_, _, _, _)
CP_intermediaries(dim, Sigma, i, w) ==
  IF i >= dim THEN w
  ELSE
    LET k == i + 1
        nu_i == gamma_to_nu(w.gamma[k])
        omega_i == Fn("sqrt", Div(Sigma[i, i], Sub(one, Mul(nu_i, nu_i))))
        rho_i == CP_rho(nu_i, omega_i)
    IN CP_intermediaries(dim, Sigma, i + 1,
         [w EXCEPT !.nu[k] = Mul(nu_i, omega_i),
                   !.omega[k] = omega_i,
                   !.rhos[k] = rho_i])

\* The loop over the groups of SNVA_MD_theta_CP_trans_to_DP; work holds the
\* vectors gamma, nu and omega, which are allocated before the loop.
RECURSIVE CP_loop(_, _, _, _, _, _, _)
CP_loop(theta, dim, n_groups, g, t, work, out) ==
  IF g >= n_groups THEN out
  ELSE
    LET n_mu == dim
        n_lambda == (dim * (dim + 1)) \div 2
        gamma == CP_gammas(theta, dim, t + n_mu + n_lambda, 0, work.gamma)
        Sigma == get_vcov_from_trian(theta, t + n_mu, dim)
        w == CP_intermediaries(dim, Sigma, 0,
               [gamma |-> gamma, nu |-> work.nu, omega |-> work.omega,
                rhos |-> [i \in 1..dim |-> [op |-> "uninitialized"]]])
        mu == [i \in 1..dim |-> Sub(Val(At(theta, t + (i - 1))), w.nu[i])]
        Sigma2 == [i \in 0..(dim - 1), j \in 0..(dim - 1) |->
                     Add(Sigma[i, j], Mul(w.nu[i + 1], w.nu[j + 1]))]
    IN CP_loop(theta, dim, n_groups, g + 1, t + CP_n_per_g(dim),
               [gamma |-> w.gamma, nu |-> w.nu, omega |-> w.omega],
               [va_mus |-> Append(out.va_mus, mu),
                va_lambdas |-> Append(out.va_lambdas, Sigma2),
                va_rhos |-> Append(out.va_rhos, w.rhos)])

SNVA_MD_theta_CP_trans_to_DP(theta, dim) ==
  CP_loop(theta, dim, CP_n_groups(theta, dim), 0, 0,
          [gamma |-> [i \in 1..dim |-> [op |-> "uninitialized"]],
           nu |-> [i \in 1..dim |-> [op |-> "uninitialized"]],
           omega |-> [i \in 1..dim |-> [op |-> "uninitialized"]]],
          SNVA_MD_input)

\* The offsets from &theta_VA[0] that one pass of the loop of
\* SNVA_MD_theta_DP_to_DP dereferences, pass by pass: *t++ for mu_vec, the
\* packed values get_vcov_from_trian(t, rng_dim) decodes, *t++ for rho_vec;
\* from and to are the read pointer before and after the pass.
RECURSIVE DP_reads(_, _, _, _, _)
DP_reads(dim, n_groups, g, t, reads) ==
  IF g >= n_groups THEN reads
  ELSE
    LET t1 == t + dim
        t2 == DP_skip_lambda(t1, dim)
        t3 == t2 + dim
    IN DP_reads(dim, n_groups, g + 1, t3,
                Append(reads,
                       [from |-> t, to |-> t3,
                        read |-> (t..(t1 - 1))
                                   \cup (t1..(t1 + n_lambda_of(dim) - 1))
                                   \cup (t2..(t3 - 1))]))

\* The same for SNVA_MD_theta_CP_trans_to_DP: *gi++ from
\* gi = t + n_mu + n_lambda, get_vcov_from_trian(t + n_mu, rng_dim), *mi++
\* from mi = t; the loop header advances t by n_per_g.
RECURSIVE CP_reads(_, _, _, _, _)
CP_reads(dim, n_groups, g, t, reads) ==
  IF g >= n_groups THEN reads
  ELSE
    LET n_mu == dim
        n_lambda == (dim * (dim + 1)) \div 2
        gi == t + n_mu + n_lambda
    IN CP_reads(dim, n_groups, g + 1, t + CP_n_per_g(dim),
                Append(reads,
                       [from |-> t, to |-> t + CP_n_per_g(dim),
                        read |-> (gi..(gi + dim - 1))
                                   \cup ((t + n_mu)..
                                           (t + n_mu + n_lambda_of(dim) - 1))
                                   \cup (t..(t + dim - 1))]))

\* The two unpack functions are called on the raw vector.
Call_DP_to_DP ==
  /\ u_out = NoResult
  /\ u_out' = [kind |-> "returned", fn |-> "DP_to_DP",
               val |-> SNVA_MD_theta_DP_to_DP(theta_VA, rng_dim),
               reads |-> DP_reads(rng_dim, DP_n_groups(theta_VA, rng_dim),
                                  0, 0, <<>>)]
  /\ UNCHANGED <<theta_VA, rng_dim>>

Call_CP_trans_to_DP ==
  /\ u_out = NoResult
  /\ u_out' = [kind |-> "returned", fn |-> "CP_trans_to_DP",
               val |-> SNVA_MD_theta_CP_trans_to_DP(theta_VA, rng_dim),
               reads |-> CP_reads(rng_dim, CP_n_groups(theta_VA, rng_dim),
                                  0, 0, <<>>)]
  /\ UNCHANGED <<theta_VA, rng_dim>>

(***************************************************************************)
(* The cache on its own: any thread calls get_cached with any argument,    *)
(* the master opens and closes parallel regions.                           *)
(***************************************************************************)
Init == CacheInit /\ UnpackIdle /\ NumIdle

Next ==
  \/ \E t \in Threads, c \in Caches, n \in ArgNs :
       GetCached_Lookup(t, c, n) /\ UNCHANGED notCacheVars
  \/ \E t \in Threads : GetCached_CheckParallel(t) /\ UNCHANGED notCacheVars
  \/ \E t \in Threads : GetCached_Construct(t) /\ UNCHANGED notCacheVars
  \/ EnterParallel /\ UNCHANGED notCacheVars
  \/ LeaveParallel /\ UNCHANGED notCacheVars

Spec == Init /\ [][Next]_vars

(***************************************************************************)
(* Claims about the cache, checked under Spec.                             *)
(***************************************************************************)
ValidN(n) == n \in 1..n_cache
SlotsUnchanged == cached_values' = cached_values /\ n_built' = n_built

\* C1: get_cached(n) with n = 0 or n > n_cache fails with invalid_argument in
\* every cache state, inside and outside a parallel region, before the
\* lookup and the parallel-region check are reached, and changes no slot.
C1_InvalidArgument ==
  /\ [](/\ \A t \in Threads : pc[t] # "idle" => ValidN(arg[t].n)
        /\ (last.cache # "none" /\ ~ValidN(last.n)) =>
              last.kind = "invalid_argument")
  /\ [][(last' # last /\ ~ValidN(last'.n)) =>
          (SlotsUnchanged /\ pc' = pc /\ in_parallel' = in_parallel)]_vars

C1_Witness ==
  /\ last.kind = "invalid_argument"
  /\ last.n = 0
  /\ last.par
  /\ last.t # 0
  /\ \E i \in Slots : cached_values[last.cache][i] # 0

\* C2: no entry is constructed while a parallel region is active: a call for
\* a valid n whose slot is empty, made inside a parallel region, ends with a
\* runtime error instead of constructing.
C2_NoConstructionInParallel ==
  /\ \A t \in Threads : pc[t] = "construct" => ~in_parallel
  /\ (ValidN(last.n) /\ last.par /\ ~last.had) =>
        last.kind = "runtime_error"

C2_Witness ==
  ValidN(last.n) /\ last.par /\ ~last.had /\ last.kind = "runtime_error"

\* C3: the entry of a key is constructed at most once, and every call that
\* returns hands out that first object; a call that finds the entry
\* constructs nothing.
C3_ConstructedOnce ==
  /\ \A c \in Caches, i \in Slots :
       n_built[c][i] <= 1 /\ cached_values[c][i] = n_built[c][i]
  /\ last.kind = "returned" =>
       /\ last.inst = 1
       /\ cached_values[last.cache][last.n - 1] = 1
  /\ \A t \in Threads :
       pc[t] \in {"check_parallel", "construct"} => ~arg[t].had

C3_Witness ==
  last.had /\ ~last.par /\ last.kind = "returned"

\* C4: once the entry for n exists, get_cached(n) made inside a parallel
\* region by any thread returns the cached object, raises no error and
\* changes no slot.
C4_ReadInParallel ==
  /\ []((last.had /\ last.par) =>
           /\ last.kind = "returned"
           /\ last.inst = cached_values[last.cache][last.n - 1])
  /\ [](\A t \in Threads : (pc[t] # "idle" /\ in_parallel) => ~arg[t].had)
  /\ [][(last' # last /\ last'.had /\ last'.par) =>
          (SlotsUnchanged /\ pc' = pc)]_vars

C4_Witness ==
  last.t # 0 /\ last.had /\ last.par /\ last.kind = "returned"

\* C5: a constructing call changes exactly slot n - 1 of its own cache, from
\* empty to populated; no other slot of this or of another cache changes in
\* that step, and a populated slot is never emptied or replaced.
C5_Frame ==
  [][/\ \A c \in Caches, i \in Slots :
          cached_values'[c][i] # cached_values[c][i] =>
            /\ cached_values[c][i] = 0
            /\ cached_values'[c][i] # 0
            /\ \E t \in Threads :
                 /\ pc[t] = "construct" /\ pc'[t] = "idle"
                 /\ arg[t].cache = c /\ arg[t].n = i + 1
                 /\ last'.kind = "returned" /\ last'.t = t
            /\ \A c2 \in Caches, i2 \in Slots :
                 <<c2, i2>> # <<c, i>> =>
                   cached_values'[c2][i2] = cached_values[c2][i2]
     /\ \A t \in Threads :
          (pc[t] = "construct" /\ pc'[t] = "idle") =>
            cached_values'[arg[t].cache][arg[t].n - 1] # 0]_vars

C5_Witness ==
  \E c2 \in Caches, i2 \in Slots :
    /\ c2 # last.cache /\ i2 # last.n - 1
    /\ last.kind = "returned" /\ ~last.had
    /\ cached_values[last.cache][last.n - 1] # 0
    /\ cached_values[last.cache][i2] = 0
    /\ cached_values[c2][last.n - 1] = 0

(***************************************************************************)
(* The unpack functions on their own: every raw vector over RawValues of   *)
(* length up to MaxLen, every dimension 1..MaxDim.                         *)
(***************************************************************************)
RawVectors == UNION {[1..n -> RawValues] : n \in 0..MaxLen}

UnpackInit ==
  /\ theta_VA \in RawVectors
  /\ rng_dim \in 1..MaxDim
  /\ u_out = NoResult

InitUnpack == CacheInit /\ UnpackInit /\ NumIdle

NextUnpack ==
  \/ Call_DP_to_DP /\ UNCHANGED notUnpackVars
  \/ Call_CP_trans_to_DP /\ UNCHANGED notUnpackVars

SpecUnpack == InitUnpack /\ [][NextUnpack]_vars

(***************************************************************************)
(* Claims about the unpack functions, checked under SpecUnpack.            *)
(***************************************************************************)
\* the block of one group: r means, r (r + 1) / 2 packed values, r skews
BlockSize(r) == r + (r * (r + 1)) \div 2 + r
Returned == u_out.kind = "returned"

\* C7: a raw vector whose length is no multiple of the block size makes
\* SNVA_MD_theta_DP_to_DP and SNVA_MD_theta_CP_trans_to_DP signal the
\* mismatch instead of returning floor(size / block) groups.
C7_SignalsMismatch ==
  (u_out.kind # "none" /\ Len(theta_VA) % BlockSize(rng_dim) # 0) =>
     u_out.kind = "error"

\* C8: for a raw vector whose length is a multiple of the block size, both
\* functions return size / block groups: the three vectors have that many
\* elements, every mean and rho has length r, every covariance is r x r.
C8_GroupCount ==
  (Returned /\ Len(theta_VA) % BlockSize(rng_dim) = 0) =>
    LET n == Len(theta_VA) \div BlockSize(rng_dim)
        v == u_out.val
    IN /\ Len(v.va_mus) = n
       /\ Len(v.va_lambdas) = n
       /\ Len(v.va_rhos) = n
       /\ \A g \in 1..n :
            /\ DOMAIN v.va_mus[g] = 1..rng_dim
            /\ DOMAIN v.va_rhos[g] = 1..rng_dim
            /\ DOMAIN v.va_lambdas[g] =
                 (0..(rng_dim - 1)) \X (0..(rng_dim - 1))

C8_Witness ==
  /\ Returned
  /\ u_out.fn = "CP_trans_to_DP"
  /\ Len(theta_VA) = 2 * BlockSize(rng_dim)
  /\ Len(u_out.val.va_rhos) = 2

\* C9: SNVA_MD_theta_DP_to_DP only reshapes: with B the block size, the
\* mean of group g is theta[g B .. g B + r - 1] and its rho is
\* theta[g B + r + r (r + 1) / 2 ..], both unchanged, and its covariance is
\* decoded from theta[g B + r .. g B + r + r (r + 1) / 2 - 1] alone.
C9_Reshape ==
  (Returned /\ u_out.fn = "DP_to_DP") =>
    LET r == rng_dim
        nl == (r * (r + 1)) \div 2
        B == BlockSize(r)
        v == u_out.val
    IN \A g \in 0..(Len(v.va_mus) - 1) :
         /\ \A i \in 0..(r - 1) :
              /\ v.va_mus[g + 1][i + 1] = theta_VA[g * B + i + 1]
              /\ v.va_rhos[g + 1][i + 1] = theta_VA[g * B + r + nl + i + 1]
         /\ \A i \in 0..(r - 1), j \in 0..(r - 1) :
              v.va_lambdas[g + 1][i, j].packed =
                [k \in 1..nl |-> theta_VA[g * B + r + k]]

C9_Witness ==
  /\ Returned
  /\ u_out.fn = "DP_to_DP"
  /\ Len(u_out.val.va_mus) = 2
  /\ u_out.val.va_mus[2][1] = 1
  /\ u_out.val.va_rhos[2][1] = 0
  /\ u_out.val.va_rhos[1][1] = 1
  /\ u_out.val.va_mus[1][1] = 0

\* Two expressions are compared as formulas over the reals: a product or
\* quotient is the bag of its numerator factors and the bag of its
\* denominator factors, so that a * b / c / d and (b * a) / (c * d) agree.
\* A factor 1 is left out; nothing is cancelled and no sum is reordered.
RECURSIVE Canon(_)
Canon(t) ==
  LET Fac(c) == IF c.op = "prod" THEN c
                ELSE IF c = one
                  THEN [op |-> "prod", num |-> EmptyBag, den |-> EmptyBag]
                ELSE [op |-> "prod", num |-> SetToBag({c}), den |-> EmptyBag]
  IN CASE t.op = "mul" ->
            CHOOSE c \in {[op |-> "prod", num |-> Fac(a).num (+) Fac(b).num,
                          den |-> Fac(a).den (+) Fac(b).den] :
                           a \in {Canon(t.a)}, b \in {Canon(t.b)}} : TRUE
       [] t.op = "div" ->
            CHOOSE c \in {[op |-> "prod", num |-> Fac(a).num (+) Fac(b).den,
                          den |-> Fac(a).den (+) Fac(b).num] :
                           a \in {Canon(t.a)}, b \in {Canon(t.b)}} : TRUE
       [] t.op \in {"add", "sub"} ->
            [op |-> t.op, a |-> Canon(t.a), b |-> Canon(t.b)]
       [] t.op = "neg" -> [op |-> "neg", a |-> Canon(t.a)]
       [] t.op = "call" -> [op |-> "call", f |-> t.f, a |-> Canon(t.a)]
       [] OTHER -> t

\* C11: for every group g and dimension i, SNVA_MD_theta_CP_trans_to_DP
\* takes nu_i from the group's i-th skew parameter and Sigma from the
\* group's packed values, and returns
\*   rho_i  = sqrt(pi) nu_i / (omega_i sqrt(2 - pi nu_i^2))
\*   with omega_i = sqrt(Sigma_ii / (1 - nu_i^2)), both from the un-scaled
\*   nu_i,
\*   mean_i = input mean_i - nu_i omega_i,
\*   cov_ij = Sigma_ij + (nu_i omega_i) (nu_j omega_j).
C11_CPtransToDP ==
  (Returned /\ u_out.fn = "CP_trans_to_DP") =>
    LET r == rng_dim
        nl == (r * (r + 1)) \div 2
        B == BlockSize(r)
        v == u_out.val
        Sigma(g, i, j) ==
          [op |-> "vcov", packed |-> [k \in 1..nl |-> theta_VA[g * B + r + k]],
           row |-> i, col |-> j]
        nu(g, i) ==
          gamma_to_nu(get_gamma(Val(theta_VA[g * B + r + nl + i + 1])))
        omega(g, i) ==
          Fn("sqrt", Div(Sigma(g, i, i), Sub(one, Mul(nu(g, i), nu(g, i)))))
        rho(g, i) ==
          Div(Mul(sqrt_pi, nu(g, i)),
              Mul(omega(g, i),
                  Fn("sqrt", Sub(two, Mul(Tpi, Mul(nu(g, i), nu(g, i)))))))
        shift(g, i) == Mul(nu(g, i), omega(g, i))
    IN \A g \in 0..(Len(v.va_mus) - 1) :
         /\ \A i \in 0..(r - 1) :
              /\ Canon(v.va_rhos[g + 1][i + 1]) = Canon(rho(g, i))
              /\ Canon(v.va_mus[g + 1][i + 1]) =
                   Canon(Sub(Val(theta_VA[g * B + i + 1]), shift(g, i)))
         /\ \A i \in 0..(r - 1), j \in 0..(r - 1) :
              Canon(v.va_lambdas[g + 1][i, j]) =
                Canon(Add(Sigma(g, i, j), Mul(shift(g, i), shift(g, j))))

\* a group of dimension two whose two skew parameters differ
C11_Witness ==
  /\ Returned
  /\ u_out.fn = "CP_trans_to_DP"
  /\ rng_dim = 2
  /\ Len(u_out.val.va_rhos) = 1
  /\ theta_VA[6] # theta_VA[7]
  /\ u_out.val.va_rhos[1][1] # u_out.val.va_rhos[1][2]
  /\ u_out.val.va_lambdas[1][0, 1].op = "add"

\* C26: for every rng_dim >= 1 and every length of the raw vector, both
\* unpack functions dereference only offsets below theta_VA.size(): each
\* pass of either loop moves the read pointer on by exactly one block of
\* B = 2 r + r (r + 1) / 2 elements, pass g reads offsets g B .. g B + B - 1
\* only, and the n_groups passes consume n_groups * B <= size elements.
C26_ReadsInBounds ==
  Returned =>
    LET B == BlockSize(rng_dim)
        reads == u_out.reads
    IN /\ rng_dim >= 1
       /\ Len(reads) = Len(u_out.val.va_mus)
       /\ Len(reads) * B <= Len(theta_VA)
       /\ \A k \in DOMAIN reads :
            /\ reads[k].from = (k - 1) * B
            /\ reads[k].to = reads[k].from + B
            /\ reads[k].read \subseteq (k - 1) * B .. ((k - 1) * B + B - 1)
            /\ \A o \in reads[k].read : o < Len(theta_VA)
       /\ UNION {reads[k].read : k \in DOMAIN reads}
            = 0..(Len(reads) * B - 1)

\* two groups are unpacked from a vector with elements left over
C26_Witness ==
  /\ Returned
  /\ Len(u_out.reads) = 2
  /\ Len(theta_VA) > 2 * BlockSize(rng_dim)
  /\ u_out.reads[2].to < Len(theta_VA)

\* C27: what SNVA_MD_theta_CP_trans_to_DP returns for group g (mean,
\* covariance, rho) depends on block g of the raw vector only: for every
\* raw vector of the same length that agrees with theta_VA on block g, the
\* outputs for group g are the same, although gamma, nu and omega are
\* allocated once and used again for every group.
C27_GroupFrame ==
  (Returned /\ u_out.fn = "CP_trans_to_DP") =>
    LET r == rng_dim
        B == BlockSize(r)
        v == u_out.val
    IN \A other \in [1..Len(theta_VA) -> RawValues] :
         \A w \in {SNVA_MD_theta_CP_trans_to_DP(other, r)} :
           \A g \in 1..Len(v.va_mus) :
             (\A k \in ((g - 1) * B + 1)..(g * B) : other[k] = theta_VA[k])
               => /\ w.va_mus[g] = v.va_mus[g]
                  /\ w.va_lambdas[g] = v.va_lambdas[g]
                  /\ w.va_rhos[g] = v.va_rhos[g]

\* two groups with different blocks are unpacked to different outputs
C27_Witness ==
  /\ Returned /\ u_out.fn = "CP_trans_to_DP"
  /\ Len(u_out.val.va_mus) = 2
  /\ \E k \in 1..BlockSize(rng_dim) :
       theta_VA[k] # theta_VA[BlockSize(rng_dim) + k]
  /\ u_out.val.va_rhos[1] # u_out.val.va_rhos[2]
  /\ u_out.val.va_mus[1] # u_out.val.va_mus[2]

(***************************************************************************)
(* Floating point.  The numeric code computes in double: binary floating   *)
(* point with round to nearest, ties to even, signed zeros, subnormal      *)
(* numbers, infinities and NaN.  The format is kept and its two sizes are  *)
(* scaled down: FlP significant bits instead of 53 and largest exponent    *)
(* FlEmax instead of 1023.  A finite number is s * m * 2^e with            *)
(* 0 <= m < 2^FlP and e >= FlEmin; m >= 2^(FlP - 1) unless e = FlEmin.     *)
(***************************************************************************)
FlP == 11
FlEmax == 127
FlEmin == 2 - FlEmax - FlP

Pow2(n) == 2 ^ n

RECURSIVE BitLen(_)
BitLen(M) == IF M = 0 THEN 0 ELSE 1 + BitLen(M \div 2)

FlNaN == [k |-> "nan", s |-> 1, m |-> 0, e |-> 0]
FlInf(s) == [k |-> "inf", s |-> s, m |-> 0, e |-> 0]
FlZero(s) == [k |-> "fin", s |-> s, m |-> 0, e |-> FlEmin]
\* the value of a library call at a point where the model does not know it
FlUnknown == [k |-> "unknown", s |-> 1, m |-> 0, e |-> 0]

IsNaN(a) == a.k = "nan"
IsInf(a) == a.k = "inf"
IsFin(a) == a.k = "fin"
IsUnknown(a) == a.k = "unknown"
IsZero(a) == a.k = "fin" /\ a.m = 0

\* An operand is evaluated once and used as a value from then on.
Only(S) == CHOOSE r \in S : TRUE

\* The number nearest to s * (M + d) * 2^E, where 0 <= d < 1 and d > 0 exactly
\* when sticky holds; M < 2^29, and M has more than FlP bits when sticky.
FlRound(s, M, E, sticky) ==
  IF M = 0 THEN FlZero(s)
  ELSE
    LET nb == BitLen(M)
        et == IF E + nb - FlP > FlEmin THEN E + nb - FlP ELSE FlEmin
        shift == et - E
        q == IF shift <= 0 THEN M * Pow2(0 - shift)
             ELSE IF shift > nb + 1 THEN 0
             ELSE M \div Pow2(shift)
        r == IF shift <= 0 \/ shift > nb + 1 THEN 0 ELSE M % Pow2(shift)
        up == /\ shift > 0
              /\ shift <= nb + 1
              /\ \/ 2 * r > Pow2(shift)
                 \/ 2 * r = Pow2(shift) /\ (sticky \/ q % 2 = 1)
        m0 == IF up THEN q + 1 ELSE q
        m1 == IF m0 = Pow2(FlP) THEN Pow2(FlP - 1) ELSE m0
        e1 == IF m0 = Pow2(FlP) THEN et + 1 ELSE et
    IN IF e1 + FlP - 1 > FlEmax /\ m1 >= Pow2(FlP - 1) THEN FlInf(s)
       ELSE IF m1 = 0 THEN FlZero(s)
       ELSE [k |-> "fin", s |-> s, m |-> m1, e |-> e1]

\* an integer as a floating point number
FlFromInt(i) == FlRound(IF i < 0 THEN -1 ELSE 1, IF i < 0 THEN 0 - i ELSE i,
                        0, FALSE)

NegOf(a) == IF a.k \in {"nan", "unknown"} THEN a ELSE [a EXCEPT !.s = 0 - a.s]
FlNeg(a) == Only({NegOf(x) : x \in {a}})

\* |a| < |b| for numbers that are finite or infinite
MagLt(a, b) ==
  IF IsInf(a) THEN FALSE
  ELSE IF IsInf(b) THEN TRUE
  ELSE a.e < b.e \/ (a.e = b.e /\ a.m < b.m)

\* a < b; false when an operand is NaN, and -0 is not below +0
FlLt(a, b) ==
  /\ ~IsNaN(a) /\ ~IsNaN(b)
  /\ ~(IsZero(a) /\ IsZero(b))
  /\ IF a.s # b.s THEN a.s < b.s
     ELSE IF a.s = 1 THEN MagLt(a, b) ELSE MagLt(b, a)

FlEq(a, b) ==
  /\ ~IsNaN(a) /\ ~IsNaN(b)
  /\ (IsZero(a) /\ IsZero(b)) \/ a = b

FlLe(a, b) == FlLt(a, b) \/ FlEq(a, b)

\* a finite number with its significand shifted up to FlP bits
FlNormM(a) == a.m * Pow2(FlP - BitLen(a.m))
FlNormE(a) == a.e - (FlP - BitLen(a.m))

\* a + b of two finite numbers, hi the one with the larger exponent
FlAddFinite(hi, lo) ==
  LET d == hi.e - lo.e
  IN IF d <= FlP + 2
       THEN LET sum == hi.s * hi.m * Pow2(d) + lo.s * lo.m
            IN IF sum = 0
                 THEN FlZero(IF hi.s = -1 /\ lo.s = -1 THEN -1 ELSE 1)
                 ELSE FlRound(IF sum < 0 THEN -1 ELSE 1,
                              IF sum < 0 THEN 0 - sum ELSE sum, lo.e, FALSE)
     ELSE IF lo.m = 0 THEN hi
     ELSE IF lo.s = hi.s THEN FlRound(hi.s, 4 * hi.m, hi.e - 2, TRUE)
     ELSE FlRound(hi.s, 4 * hi.m - 1, hi.e - 2, TRUE)

AddOf(a, b) ==
  IF IsNaN(a) \/ IsNaN(b) THEN FlNaN
  ELSE IF IsUnknown(a) \/ IsUnknown(b) THEN FlUnknown
  ELSE IF IsInf(a) /\ IsInf(b) THEN (IF a.s = b.s THEN a ELSE FlNaN)
  ELSE IF IsInf(a) THEN a
  ELSE IF IsInf(b) THEN b
  ELSE IF a.e >= b.e THEN FlAddFinite(a, b) ELSE FlAddFinite(b, a)
FlAdd(a, b) == Only({AddOf(x, y) : x \in {a}, y \in {b}})

FlSub(a, b) == FlAdd(a, FlNeg(b))

MulOf(a, b) ==
  IF IsNaN(a) \/ IsNaN(b) THEN FlNaN
  ELSE IF IsUnknown(a) \/ IsUnknown(b) THEN FlUnknown
  ELSE IF IsInf(a) \/ IsInf(b)
    THEN (IF IsZero(a) \/ IsZero(b) THEN FlNaN ELSE FlInf(a.s * b.s))
  ELSE FlRound(a.s * b.s, a.m * b.m, a.e + b.e, FALSE)
FlMul(a, b) == Only({MulOf(x, y) : x \in {a}, y \in {b}})

DivOf(a, b) ==
  IF IsNaN(a) \/ IsNaN(b) THEN FlNaN
  ELSE IF IsUnknown(a) \/ IsUnknown(b) THEN FlUnknown
  ELSE IF IsInf(a) THEN (IF IsInf(b) THEN FlNaN ELSE FlInf(a.s * b.s))
  ELSE IF IsInf(b) THEN FlZero(a.s * b.s)
  ELSE IF IsZero(b) THEN (IF IsZero(a) THEN FlNaN ELSE FlInf(a.s * b.s))
  ELSE IF IsZero(a) THEN FlZero(a.s * b.s)
  ELSE LET num == FlNormM(a) * Pow2(FlP + 2)
           den == FlNormM(b)
       IN FlRound(a.s * b.s, num \div den,
                  FlNormE(a) - FlNormE(b) - (FlP + 2), num % den # 0)
FlDiv(a, b) == Only({DivOf(x, y) : x \in {a}, y \in {b}})

\* the largest r in lo..hi with r * r <= M
RECURSIVE ISqrt(_, _, _)
ISqrt(M, lo, hi) ==
  IF lo = hi THEN lo
  ELSE LET mid == (lo + hi + 1) \div 2
       IN IF mid * mid <= M THEN ISqrt(M, mid, hi) ELSE ISqrt(M, lo, mid - 1)

\* sqrt: correctly rounded
SqrtOf(a) ==
  IF a.k \in {"nan", "unknown"} THEN a
  ELSE IF IsZero(a) THEN a
  ELSE IF a.s = -1 THEN FlNaN
  ELSE IF IsInf(a) THEN a
  ELSE LET up == IF (FlNormE(a) - (FlP + 1)) % 2 = 0 THEN FlP + 1 ELSE FlP + 2
           M == FlNormM(a) * Pow2(up)
           r == ISqrt(M, 0, Pow2(FlP + 1))
       IN FlRound(1, r, (FlNormE(a) - up) \div 2, r * r # M)
FlSqrt(a) == Only({SqrtOf(x) : x \in {a}})

\* whether a finite number is an integer small enough to be handled as one
FlIsInt(a) ==
  /\ IsFin(a)
  /\ \/ a.m = 0
     \/ a.e >= 0 /\ a.e + BitLen(a.m) <= FlP
     \/ a.e < 0 /\ 0 - a.e < BitLen(a.m) /\ a.m % Pow2(0 - a.e) = 0
FlToInt(a) ==
  IF a.m = 0 THEN 0
  ELSE IF a.e >= 0 THEN a.s * a.m * Pow2(a.e)
  ELSE a.s * (a.m \div Pow2(0 - a.e))

\* e^k for k = -30 .. 30: <<M, E>> with M * 2^E <= e^k < (M + 1) * 2^E
ExpTable ==
  << <<13809414, -67>>, <<9384469, -65>>, <<12754816, -64>>, <<8667796, -62>>,
     <<11780757, -61>>, <<16011709, -60>>, <<10881084, -58>>, <<14788927, -57>>,
     <<10050117, -55>>, <<13659526, -54>>, <<9282610, -52>>, <<12616375, -51>>,
     <<8573716, -49>>, <<11652888, -48>>, <<15837917, -47>>, <<10762981, -45>>,
     <<14628407, -44>>, <<9941033, -42>>, <<13511265, -41>>, <<9181857, -39>>,
     <<12479437, -38>>, <<8480657, -36>>, <<11526408, -35>>, <<15666012, -34>>,
     <<10646159, -32>>, <<14469631, -31>>, <<9833133, -29>>, <<13364614, -28>>,
     <<9082197, -26>>, <<12343985, -25>>, <<8388608, -23>>, <<11401300, -22>>,
     <<15495973, -21>>, <<10530605, -19>>, <<14312577, -18>>, <<9726404, -16>>,
     <<13219554, -15>>, <<8983618, -13>>, <<12210003, -12>>, <<16595115, -11>>,
     <<11277550, -9>>, <<15327780, -8>>, <<10416306, -6>>, <<14157228, -5>>,
     <<9620834, -3>>, <<13076069, -2>>, <<8886110, 0>>, <<12077476, 1>>,
     <<16414992, 2>>, <<11155143, 4>>, <<15161412, 5>>, <<10303247, 7>>,
     <<14003565, 8>>, <<9516409, 10>>, <<12934141, 11>>, <<8789660, 13>>,
     <<11946387, 14>>, <<16236823, 15>>, <<11034065, 17>>, <<14996850, 18>>,
     <<10191416, 20>> >>
ExpRange == (Len(ExpTable) - 1) \div 2

\* exp of the C library.  Known: at the integers of the table, where the
\* result is below half the smallest number or above the largest one, and
\* where it rounds to 1; not known elsewhere.
ExpOf(a) ==
  IF a.k \in {"nan", "unknown"} THEN a
  ELSE IF IsInf(a) THEN (IF a.s = 1 THEN a ELSE FlZero(1))
  ELSE IF FlIsInt(a) /\ FlToInt(a) \in (0 - ExpRange)..ExpRange
    THEN LET row == ExpTable[FlToInt(a) + ExpRange + 1]
         IN FlRound(1, row[1], row[2], FlToInt(a) # 0)
  ELSE IF FlLe(a, FlFromInt(0 - (FlEmax + FlP + 1))) THEN FlZero(1)
  ELSE IF FlLe(FlFromInt(FlEmax + 1), a) THEN FlInf(1)
  ELSE IF a.e + BitLen(a.m) <= 0 - (FlP + 2) THEN FlRound(1, 1, 0, FALSE)
  ELSE FlUnknown
\* an exp that returns a tiny positive number where the result underflows
FlExp_NoUnderflow(a) ==
  Only({IF IsZero(y) THEN FlRound(1, 1, FlEmin \div 2, FALSE) ELSE y :
          y \in {ExpOf(a)}})
FlExp(a) == Only({ExpOf(x) : x \in {a}})

\* pow(x, 1.5) of the C library.  Known at 0, 1, infinity and where the
\* result is no number; not known elsewhere.
Pow15Of(a) ==
  IF a.k \in {"nan", "unknown"} THEN a
  ELSE IF IsZero(a) THEN FlZero(1)
  ELSE IF a.s = -1 THEN FlNaN
  ELSE IF IsInf(a) THEN a
  ELSE IF a = FlRound(1, 1, 0, FALSE) THEN a
  ELSE FlUnknown
FlPow(a, b) ==
  Only({IF y = FlRound(1, 3, -1, FALSE) THEN Pow15Of(x) ELSE FlUnknown :
          x \in {a}, y \in {b}})

\* atomic::Rmath::Rf_dnorm4(z, 0, 1, 0): the standard normal density.  Known
\* at 0 (M_1_SQRT_2PI) and where it is below half the smallest number; not
\* known elsewhere.
dnorm_at(z) ==
  IF z.k \in {"nan", "unknown"} THEN z
  ELSE IF IsInf(z) THEN FlZero(1)
  ELSE IF IsZero(z) THEN FlRound(1, 13386281, -25, TRUE)
  ELSE IF ~MagLt(z, FlFromInt(FlEmax + FlP + 1)) THEN FlZero(1)
  ELSE FlUnknown
Rf_dnorm4(z) == Only({dnorm_at(x) : x \in {z}})

\* atomic::Rmath::Rf_pnorm5(z, 0, 1, 1, 0): the standard normal distribution
\* function.  Known at 0 and in the tails where it has become 0 or 1; not
\* known elsewhere.
pnorm_at(z) ==
  IF z.k \in {"nan", "unknown"} THEN z
  ELSE IF IsInf(z) THEN (IF z.s = 1 THEN FlRound(1, 1, 0, FALSE) ELSE FlZero(1))
  ELSE IF IsZero(z) THEN FlRound(1, 1, -1, FALSE)
  ELSE IF FlLe(z, FlFromInt(0 - (FlEmax + FlP + 1))) THEN FlZero(1)
  ELSE IF FlLe(FlFromInt(FlP + 1), z) THEN FlRound(1, 1, 0, FALSE)
  ELSE FlUnknown
Rf_pnorm5(z) == Only({pnorm_at(x) : x \in {z}})

\* log of the C library.  Known at 0, 1, infinity and where the result is
\* no number; not known elsewhere.
log_at(a) ==
  IF a.k \in {"nan", "unknown"} THEN a
  ELSE IF IsZero(a) THEN FlInf(-1)
  ELSE IF a.s = -1 THEN FlNaN
  ELSE IF IsInf(a) THEN a
  ELSE IF a = FlRound(1, 1, 0, FALSE) THEN FlZero(1)
  ELSE FlUnknown
FlLog(a) == Only({log_at(x) : x \in {a}})

\* -log(Phi(k)) for k = -3 .. 3: <<M, E>> with
\* M * 2^E <= -log(Phi(k)) < (M + 1) * 2^E
PnormLogTable ==
  << <<13857406, -21>>, <<15867825, -22>>, <<15443608, -23>>,
     <<11629079, -24>>, <<11593309, -26>>, <<12354961, -29>>,
     <<11603369, -33>> >>
PnormLogRange == (Len(PnormLogTable) - 1) \div 2

\* atomic::Rmath::Rf_pnorm5(z, 0, 1, 1, 1): the logarithm of the standard
\* normal distribution function.  Known at the integers of the table and at
\* the infinities; not known elsewhere.
pnorm_log_at(z) ==
  IF z.k \in {"nan", "unknown"} THEN z
  ELSE IF IsInf(z) THEN (IF z.s = 1 THEN FlZero(-1) ELSE FlInf(-1))
  ELSE IF FlIsInt(z) /\ FlToInt(z) \in (0 - PnormLogRange)..PnormLogRange
    THEN LET row == PnormLogTable[FlToInt(z) + PnormLogRange + 1]
         IN FlRound(-1, row[1], row[2], TRUE)
  ELSE FlUnknown
Rf_pnorm5_log(z) == Only({pnorm_log_at(x) : x \in {z}})

\* a < b ? x : y
FlCondLt(a, b, x, y) ==
  IF IsUnknown(a) \/ IsUnknown(b) THEN FlUnknown
  ELSE IF FlLt(a, b) THEN x ELSE y

\* CppAD::CondExpGe(a, b, x, y) for double: a >= b ? x : y
FlCondGe(a, b, x, y) ==
  IF IsUnknown(a) \/ IsUnknown(b) THEN FlUnknown
  ELSE IF FlLe(b, a) THEN x ELSE y

\* The value of an expression tree: every node is one rounded operation.
\* env holds the values of the named constants initialised so far.
NoEnv == [name \in {} |-> FlNaN]

\* gamma_to_nu (gamma-to-nu.h): known at 0, where nu is 0, and where the
\* argument is no number; not known elsewhere.
gamma_to_nu_at(gv) ==
  IF IsZero(gv) \/ gv.k \in {"nan", "unknown"} THEN gv ELSE FlUnknown

\* the name under which entry (row, col) of a decoded covariance matrix is
\* given a value
VcovName(row, col) ==
  "Sigma(" \o ToString(row) \o "," \o ToString(col) \o ")"

RECURSIVE Eval(_, _)
Eval(t, env) ==
  CASE t.op = "val" -> FlFromInt(t.v)
    [] t.op = "lit" -> FlRound(1, t.M, t.E, t.inexact)
    [] t.op = "epsilon" -> FlRound(1, 1, 1 - FlP, FALSE)
    [] t.op = "var" -> env[t.name]
    [] t.op = "xw" -> env[t.v][t.i]
    [] t.op = "vcov" -> env[VcovName(t.row, t.col)]
    [] t.op = "add" -> FlAdd(Eval(t.a, env), Eval(t.b, env))
    [] t.op = "sub" -> FlSub(Eval(t.a, env), Eval(t.b, env))
    [] t.op = "mul" -> FlMul(Eval(t.a, env), Eval(t.b, env))
    [] t.op = "div" -> FlDiv(Eval(t.a, env), Eval(t.b, env))
    [] t.op = "neg" -> FlNeg(Eval(t.a, env))
    [] t.op = "pow" -> FlPow(Eval(t.a, env), Eval(t.b, env))
    [] t.op = "cond_lt" ->
         Only({FlCondLt(x, y, Eval(t.x, env), Eval(t.y, env)) :
                 x \in {Eval(t.a, env)}, y \in {Eval(t.b, env)}})
    [] t.op = "cond_gt" ->
         Only({FlCondLt(y, x, Eval(t.x, env), Eval(t.y, env)) :
                 x \in {Eval(t.a, env)}, y \in {Eval(t.b, env)}})
    [] t.op = "cond_le" ->
         Only({FlCondGe(y, x, Eval(t.x, env), Eval(t.y, env)) :
                 x \in {Eval(t.a, env)}, y \in {Eval(t.b, env)}})
    [] t.op = "cond_ge" ->
         Only({FlCondGe(x, y, Eval(t.x, env), Eval(t.y, env)) :
                 x \in {Eval(t.a, env)}, y \in {Eval(t.b, env)}})
    [] t.op = "call" /\ t.f = "log" -> FlLog(Eval(t.a, env))
    [] t.op = "call" /\ t.f = "pnorm" -> Rf_pnorm5(Eval(t.a, env))
    [] t.op = "call" /\ t.f = "dnorm1" -> Rf_dnorm4(Eval(t.a, env))
    [] t.op = "call" /\ t.f = "dnorm" -> Rf_dnorm4(Eval(t.a, env))
    [] t.op = "call" /\ t.f = "Rf_pnorm5_log" ->
         Rf_pnorm5_log(Eval(t.a, env))
    [] t.op = "call" /\ t.f = "pnorm_log" -> Rf_pnorm5_log(Eval(t.a, env))
    [] t.op = "call" /\ t.f = "gamma_to_nu" -> gamma_to_nu_at(Eval(t.a, env))
    [] t.op = "call" /\ t.f = "exp" -> FlExp(Eval(t.a, env))
    [] t.op = "call" /\ t.f = "sqrt" -> FlSqrt(Eval(t.a, env))
    [] t.op = "call" /\ t.f = "Rf_dnorm4" -> Rf_dnorm4(Eval(t.a, env))
    [] t.op = "call" /\ t.f = "Rf_pnorm5" -> Rf_pnorm5(Eval(t.a, env))
    [] OTHER -> FlUnknown

\* The constants of a function body are initialised one after the other,
\* each from the arguments and the constants before it.
\* The constants lo .. hi of the body, lo <= hi: one half after the other.
RECURSIVE InitialiseRange(_, _, _, _)
InitialiseRange(body, lo, hi, env) ==
  IF lo = hi
    THEN Only({(body[lo].name :> x) @@ v :
                 v \in {env}, x \in {Eval(body[lo].init, env)}})
  ELSE Only({InitialiseRange(body, (lo + hi) \div 2 + 1, hi, v) :
               v \in {InitialiseRange(body, lo, (lo + hi) \div 2, env)}})

Initialise(body, i, env) ==
  IF i > Len(body) THEN env ELSE InitialiseRange(body, i, Len(body), env)

(***************************************************************************)
(* get_gamma on its own: it is called with one transformed skewness after  *)
(* the other.                                                              *)
(***************************************************************************)
\* the transformed skewness values tried are the integers -MaxG .. MaxG
MaxG == 13

Call_get_gamma(g) ==
  /\ gamma_calls' =
       <<[g |-> g, val |-> Eval(get_gamma(Val(g)), NoEnv)]>>
         \o SubSeq(gamma_calls, 1, IF Len(gamma_calls) = 0 THEN 0 ELSE 1)
  /\ UNCHANGED <<hess_call, int_call, g_call, off_call, va_call,
               ent_call>>

InitGamma == CacheInit /\ UnpackIdle /\ NumIdle

NextGamma ==
  \E g \in (0 - MaxG)..MaxG : Call_get_gamma(g) /\ UNCHANGED notNumVars

SpecGamma == InitGamma /\ [][NextGamma]_vars

\* C10: for every transformed skewness g, get_gamma returns a value strictly
\* inside the open interval (-c1, c1) with c1 = 0.99527, the map is
\* increasing in g, and g = 0 is sent to 0.
C10_GammaInOpenInterval ==
  /\ \A i \in 1..Len(gamma_calls) :
       /\ FlLt(FlNeg(Eval(get_gamma_c1, NoEnv)), gamma_calls[i].val)
       /\ FlLt(gamma_calls[i].val, Eval(get_gamma_c1, NoEnv))
       /\ gamma_calls[i].g = 0 => IsZero(gamma_calls[i].val)
  /\ \A i, j \in 1..Len(gamma_calls) :
       gamma_calls[i].g < gamma_calls[j].g =>
         FlLt(gamma_calls[i].val, gamma_calls[j].val)

(***************************************************************************)
(* The mode and curvature solver: the specialisation for double and the    *)
(* template the AD types are compiled from.                                *)
(***************************************************************************)
\* the numeric types the classes are instantiated for: double and the AD
\* types, which all take the templates
Types == {"double", "AD<double>"}

\* std::numeric_limits<double>::epsilon(): the gap between 1 and the next
\* number, 2^-52 in double
eps == [op |-> "epsilon"]
zero == Lit("0", 0, 0, FALSE)
M_2_PI == Lit("M_2_PI", 10680707, -24, TRUE)
four == Lit("4.", 4, 0, FALSE)
one_and_a_half == Lit("1.5", 3, -1, FALSE)
Const(name, init) == [name |-> name, init |-> init]

\* template<> mode_n_Hess<double> get_SNVA_mode_n_Hess
\*   (double const mu, double const sigma, double const rho): the constants
\* of its body, in the order of the source
get_SNVA_mode_n_Hess_body ==
  << Const("alpha", Mul(Var("sigma"), Var("rho"))),
     Const("a_sign", CondLt(Var("alpha"), zero, Neg(one), one)),
     Const("nu", Div(Mul(Fn("sqrt", M_2_PI), Var("alpha")),
                     Fn("sqrt", Add(one, Mul(Var("alpha"), Var("alpha")))))),
     Const("nu_sq", Mul(Var("nu"), Var("nu"))),
     Const("gamma",
           Div(Mul(Mul(Div(Sub(four, Tpi), two), Var("nu_sq")), Var("nu")),
               Pow(Sub(one, Var("nu_sq")), one_and_a_half))),
     Const("mode",
           Add(Var("mu"), Mul(Var("sigma"),
             Sub(Sub(Var("nu"),
                     Div(Mul(Var("gamma"),
                             Fn("sqrt", Sub(one, Var("nu_sq")))), two)),
                 Mul(Div(Var("a_sign"), two),
                     Fn("exp", Div(Mul(Neg(two), Tpi),
                                   Add(Mul(Var("a_sign"), Var("alpha")),
                                       eps)))))))),
     Const("z", Mul(Var("rho"), Sub(Var("mode"), Var("mu")))),
     Const("phi", Fn("Rf_dnorm4", Var("z"))),
     Const("Phi", Fn("Rf_pnorm5", Var("z"))),
     Const("Hess",
           Sub(Div(Div(Neg(one), Var("sigma")), Var("sigma")),
               Div(Mul(Mul(Mul(Var("rho"), Var("rho")), Var("phi")),
                       Add(Mul(Var("z"), Var("Phi")), Var("phi"))),
                   Add(Mul(Var("Phi"), Var("Phi")), eps)))) >>

\* template<class Type> mode_n_Hess<Type> get_SNVA_mode_n_Hess
\*   (Type const mu, Type const sigma, Type const rho): the same constants,
\* but for a_sign, which is a conditional expression on alpha <= zero, and
\* for phi and Phi, which are dnorm(z, zero, one) and pnorm(z), the standard
\* normal density and distribution function for any Type
get_SNVA_mode_n_Hess_body_T ==
  [i \in DOMAIN get_SNVA_mode_n_Hess_body |->
     LET c == get_SNVA_mode_n_Hess_body[i]
     IN CASE c.name = "a_sign" ->
               Const("a_sign", CondLe(Var("alpha"), zero, Neg(one), one))
          [] c.name = "phi" -> Const("phi", Fn("dnorm", Var("z")))
          [] c.name = "Phi" -> Const("Phi", Fn("pnorm", Var("z")))
          [] OTHER -> c]

mode_n_Hess_body(Type) ==
  IF Type = "double" THEN get_SNVA_mode_n_Hess_body
  ELSE get_SNVA_mode_n_Hess_body_T

\* the constants of the body as they stand when the function returns
mode_n_Hess_consts(Type, mu, sigma, rho) ==
  Initialise(mode_n_Hess_body(Type), 1,
             [name \in {"mu", "sigma", "rho"} |->
                CASE name = "mu" -> mu
                  [] name = "sigma" -> sigma
                  [] name = "rho" -> rho])

get_SNVA_mode_n_Hess(mu, sigma, rho) ==
  Only({[mode |-> v["mode"], Hess |-> v["Hess"]] :
          v \in {mode_n_Hess_consts("double", mu, sigma, rho)}})

\* lambda = 1. / sqrt(-dvals.Hess), what every caller does with the result
lambda_of(Hess) == FlDiv(FlFromInt(1), FlSqrt(FlNeg(Hess)))

(***************************************************************************)
(* The solver on its own: it is called once with some (mu, sigma, rho).    *)
(* sigma runs over the powers of two of the format, rho over 0, 1 and the  *)
(* largest power of two, each with either sign, mu over small integers.    *)
(***************************************************************************)
MaxMu == 1
MaxSigmaExp == 70

FlPow2(s, j) == FlRound(s, 1, j, FALSE)
MuValues == {FlFromInt(i) : i \in (0 - MaxMu)..MaxMu}
SigmaValues == {FlPow2(1, j) : j \in (0 - MaxSigmaExp)..MaxSigmaExp}
RhoValues ==
  {FlPow2(-1, FlEmax), FlFromInt(-1), FlZero(-1), FlZero(1), FlFromInt(1),
   FlPow2(1, FlEmax)}

Call_get_SNVA_mode_n_Hess ==
  /\ ~hess_call.made
  /\ \A v \in {mode_n_Hess_consts(hess_call.Type, hess_call.mu,
                                   hess_call.sigma, hess_call.rho)} :
       hess_call' =
         [hess_call EXCEPT
            !.made = TRUE,
            !.consts = v,
            !.dvals = [mode |-> v["mode"], Hess |-> v["Hess"]]]
  /\ UNCHANGED <<gamma_calls, int_call, g_call, off_call, va_call,
               ent_call>>

InitHess ==
  /\ CacheInit /\ UnpackIdle
  /\ gamma_calls = <<>>
  /\ int_call = NoIntCall
  /\ g_call = NoGCall
  /\ off_call = NoOffCall
  /\ va_call = NoVACall
  /\ ent_call = NoEntCall
  /\ \E Type \in Types, mu \in MuValues, sigma \in SigmaValues,
        rho \in RhoValues :
       hess_call = [made |-> FALSE, Type |-> Type,
                    mu |-> mu, sigma |-> sigma, rho |-> rho,
                    consts |-> NoEnv,
                    dvals |-> [mode |-> FlZero(1), Hess |-> FlZero(1)]]

NextHess == Call_get_SNVA_mode_n_Hess /\ UNCHANGED notNumVars

SpecHess == InitHess /\ [][NextHess]_vars

\* C6: for every sigma > 0 and every mu and rho, rho = 0 and |rho| large
\* included, the Hess returned by get_SNVA_mode_n_Hess is strictly negative,
\* so that 1 / sqrt(-Hess) is a well-defined positive number.  Calls whose
\* result the model does not know are left out.
C6_HessNegative ==
  (hess_call.made /\ ~IsUnknown(hess_call.dvals.Hess)) =>
     /\ FlLt(FlZero(1), hess_call.sigma)
     /\ FlLt(hess_call.dvals.Hess, FlZero(1))
     /\ IsFin(lambda_of(hess_call.dvals.Hess))
     /\ FlLt(FlZero(1), lambda_of(hess_call.dvals.Hess))

\* the operands of an expression and the divisors that occur in it
Operands(t) ==
  CASE t.op \in {"add", "sub", "mul", "div", "pow"} -> {t.a, t.b}
    [] t.op \in {"neg", "call"} -> {t.a}
    [] t.op \in {"cond_lt", "cond_le", "cond_gt", "cond_ge"} ->
         {t.a, t.b, t.x, t.y}
    [] OTHER -> {}

RECURSIVE Divisors(_)
Divisors(t) ==
  (IF t.op = "div" THEN {t.b} ELSE {})
    \cup UNION {Divisors(c) : c \in Operands(t)}

\* the divisors of a body that are guarded by eps: something + eps
GuardedDivisors(body) ==
  {d \in UNION {Divisors(body[i].init) : i \in DOMAIN body} :
     d.op = "add" /\ d.b = eps}

FlAbs(a) == IF a.k \in {"nan", "unknown"} THEN a ELSE [a EXCEPT !.s = 1]

\* C20: for every sigma > 0 and every mu and rho, in the double and in the
\* generic version, a_sign has the sign of alpha, the divisor
\* a_sign * alpha + eps is |alpha| + eps, and both guarded divisors,
\* a_sign * alpha + eps and Phi * Phi + eps, are strictly positive, so that
\* nothing is divided by zero.  Divisors whose value the model does not
\* know are left out.
C20_DenominatorsPositive ==
  hess_call.made =>
    LET v == hess_call.consts
        body == mode_n_Hess_body(hess_call.Type)
        alpha == v["alpha"]
        a_sign == v["a_sign"]
        Zero == FlZero(1)
    IN /\ FlLt(Zero, hess_call.sigma)
       /\ FlLt(alpha, Zero) => a_sign = FlFromInt(-1)
       /\ FlLt(Zero, alpha) => a_sign = FlFromInt(1)
       /\ Eval(Add(Mul(Var("a_sign"), Var("alpha")), eps), v)
            = FlAdd(FlAbs(alpha), Eval(eps, v))
       /\ GuardedDivisors(body) =
            {Add(Mul(Var("a_sign"), Var("alpha")), eps),
             Add(Mul(Var("Phi"), Var("Phi")), eps)}
       /\ \A d \in GuardedDivisors(body) :
            \A x \in {Eval(d, v)} : ~IsUnknown(x) => FlLt(Zero, x)

\* C21: for every sigma > 0 and every rho, in the double and in the generic
\* version, the constant nu of get_SNVA_mode_n_Hess is a number strictly
\* between -1 and 1, no larger in size than sqrt(M_2_PI), and one - nu_sq,
\* the base of the power and the argument of the square root, is strictly
\* positive.
C21_NuInside ==
  hess_call.made =>
    LET v == hess_call.consts
        nu == v["nu"]
        base == Eval(Sub(one, Var("nu_sq")), v)
    IN /\ FlLt(FlZero(1), hess_call.sigma)
       /\ IsFin(nu)
       /\ FlLt(FlFromInt(-1), nu) /\ FlLt(nu, FlFromInt(1))
       /\ FlLe(FlAbs(nu), Eval(Fn("sqrt", M_2_PI), v))
       /\ FlLt(FlZero(1), base)

\* the version of the solver a call did not use, and what it gives on the
\* arguments of the call
OtherType(Type) == CHOOSE T \in Types : T # Type
OtherConsts ==
  mode_n_Hess_consts(OtherType(hess_call.Type), hess_call.mu,
                     hess_call.sigma, hess_call.rho)

M_SQRT2 == Lit("M_SQRT2", 11863283, -23, TRUE)
M_2_SQRTPI == Lit("M_2_SQRTPI", 9465530, -23, TRUE)

\* struct mlogit_fam: static constexpr double const too_large = 30.;
too_large == Lit("30.", 30, 0, FALSE)

\* template<typename T> static T g(T const &eta)
mlogit_fam_g_T(eta) ==
  CondGe(eta, too_large, eta, Fn("log", Add(one, Fn("exp", eta))))

\* static double g(double const &eta)
mlogit_fam_g(eta) ==
  CondGt(eta, too_large, eta, Fn("log", Add(one, Fn("exp", eta))))

\* struct probit_fam: template<typename T> static T g(T const &eta)
probit_fam_g_T(eta) == Neg(Fn("pnorm_log", eta))

\* static double g(double const &eta)
probit_fam_g(eta) == Neg(Fn("Rf_pnorm5_log", eta))

Families == {"mlogit_fam", "probit_fam"}

\* Fam::g(zz) for a double zz: the overload that is no template is chosen
Fam_g(Fam, eta) ==
  IF Fam = "mlogit_fam" THEN mlogit_fam_g(eta) ELSE probit_fam_g(eta)

\* Fam::g(zz) for a zz of an AD type
Fam_g_T(Fam, eta) ==
  IF Fam = "mlogit_fam" THEN mlogit_fam_g_T(eta) ELSE probit_fam_g_T(eta)

\* static double comp(mu, sig, rho, xw): the constants before the loop
comp_head ==
  << Const("xi", Var("dvals.mode")),
     Const("lambda", Div(one, Fn("sqrt", Neg(Var("dvals.Hess"))))),
     Const("mult", Mul(M_SQRT2, Var("lambda"))),
     Const("out", zero) >>

\* the body of for(unsigned i = 0; i < xw.x.size(); ++i)
comp_body_NoPhi(Fam) ==
  << Const("xx", Var("xw.x[i]")),
     Const("zz", Add(Var("xi"), Mul(Var("mult"), Var("xx")))),
     Const("dif", Sub(Var("zz"), Var("mu"))),
     Const("out",
       Add(Var("out"),
           Mul(Mul(Var("xw.w[i]"), Fam_g(Fam, Var("zz"))),
               Fn("exp",
                  Sub(Mul(Var("xx"), Var("xx")),
                      Div(Div(Div(Mul(Var("dif"), Var("dif")), two),
                              Var("sig")), Var("sig"))))))) >>
comp_body(Fam) ==
  << Const("xx", Var("xw.x[i]")),
     Const("zz", Add(Var("xi"), Mul(Var("mult"), Var("xx")))),
     Const("dif", Sub(Var("zz"), Var("mu"))),
     Const("out",
       Add(Var("out"),
           Mul(Mul(Mul(Var("xw.w[i]"), Fam_g(Fam, Var("zz"))),
                   Fn("exp",
                      Sub(Mul(Var("xx"), Var("xx")),
                          Div(Div(Div(Mul(Var("dif"), Var("dif")), two),
                                  Var("sig")), Var("sig"))))),
               Fn("pnorm", Mul(Var("rho"), Var("dif")))))) >>

\* out *= M_2_SQRTPI * lambda / sig;
comp_tail_NoLambda ==
  << Const("out", Mul(Var("out"), Div(M_2_SQRTPI, Var("sig")))) >>
comp_tail ==
  << Const("out",
       Mul(Var("out"), Div(Mul(M_2_SQRTPI, Var("lambda")), Var("sig")))) >>

\* The loop over the nodes of the rule xw, from node i on: the body is run
\* once per node, with xw.x[i] and xw.w[i] the node and its weight.
RECURSIVE NodeLoop(_, _, _)
NodeLoop(body, xw, i) ==
  IF i > Len(xw.x) THEN <<>>
  ELSE <<Const("xw.x[i]", xw.x[i]), Const("xw.w[i]", xw.w[i])>>
         \o body \o NodeLoop(body, xw, i + 1)

\* auto const dvals = get_SNVA_mode_n_Hess(mu, sig, rho): the solver for
\* the type of the arguments runs on them, and its result is dvals
dvals_of_solver(Type) ==
  <<Const("sigma", Var("sig"))>>
    \o mode_n_Hess_body(Type)
    \o <<Const("dvals.mode", Var("mode")), Const("dvals.Hess", Var("Hess"))>>

\* the arguments of comp and of reverse
tx_of(mu, sig, rho) ==
  [name \in {"mu", "sig", "rho"} |->
     CASE name = "mu" -> mu
       [] name = "sig" -> sig
       [] name = "rho" -> rho]

\* the arguments of comp and of reverse, with the result of the solver
IntegralArgs(mu, sig, rho) ==
  Only({[name \in {"mu", "sig", "rho", "dvals.mode", "dvals.Hess"} |->
           CASE name = "mu" -> mu
             [] name = "sig" -> sig
             [] name = "rho" -> rho
             [] name = "dvals.mode" -> d.mode
             [] name = "dvals.Hess" -> d.Hess] :
          d \in {get_SNVA_mode_n_Hess(mu, sig, rho)}})

\* comp as a whole: the solver, the head, the loop and the tail.  The rule
\* xw is given by the literals of its nodes and weights.
comp_statements(Fam, xw) ==
  dvals_of_solver("double") \o comp_head \o NodeLoop(comp_body(Fam), xw, 1)
    \o comp_tail

comp(Fam, mu, sig, rho, xw) ==
  Only({v["out"] :
          v \in {Only({Initialise(statements, 1, tx) :
                         statements \in {comp_statements(Fam, xw)},
                         tx \in {tx_of(mu, sig, rho)}})}})

\* The expression a function body computes, over its arguments: every named
\* constant is replaced by the expression it was initialised with.
RECURSIVE Expand(_, _)
Expand(t, senv) ==
  CASE t.op = "var" -> senv[t.name]
    [] t.op \in {"add", "sub", "mul", "div", "pow"} ->
         [t EXCEPT !.a = Expand(t.a, senv), !.b = Expand(t.b, senv)]
    [] t.op \in {"neg", "call"} -> [t EXCEPT !.a = Expand(t.a, senv)]
    [] t.op \in {"cond_lt", "cond_gt", "cond_ge"} ->
         [t EXCEPT !.a = Expand(t.a, senv), !.b = Expand(t.b, senv),
                   !.x = Expand(t.x, senv), !.y = Expand(t.y, senv)]
    [] OTHER -> t

RECURSIVE ExpandBody(_, _, _)
ExpandBody(body, i, senv) ==
  IF i > Len(body) THEN senv
  ELSE Only({ExpandBody(body, i + 1, (body[i].name :> x) @@ v) :
               v \in {senv}, x \in {Expand(body[i].init, senv)}})

\* xw.x[i] and xw.w[i] of the rule, i counted from 1
Node(v, i) == [op |-> "xw", v |-> v, i |-> i]

RECURSIVE ExpandLoop(_, _, _, _)
ExpandLoop(body, n, i, senv) ==
  IF i > n THEN senv
  ELSE Only({ExpandLoop(body, n, i + 1, v) :
               v \in {ExpandBody(body, 1,
                        ("xw.x[i]" :> Node("x", i))
                          @@ ("xw.w[i]" :> Node("w", i)) @@ senv)}})

IntegralArgNames == {"mu", "sig", "rho", "dvals.mode", "dvals.Hess"}

\* what comp returns for a rule of n nodes, as an expression of mu, sig,
\* rho, the mode and Hess of the solver, and the nodes and weights
comp_expr(Fam, n) ==
  ExpandBody(comp_tail, 1,
    ExpandLoop(comp_body(Fam), n, 1,
      ExpandBody(comp_head, 1,
        [name \in IntegralArgNames |-> Var(name)])))["out"]

\* Fam::g(zz) inside reverse, where zz is of the class's Type: the template
\* is chosen for every Type but double
Fam_g_of(Type, Fam, eta) ==
  IF Type = "double" THEN Fam_g(Fam, eta) ELSE Fam_g_T(Fam, eta)

\* virtual bool reverse(q, tx, ty, px, py): the constants before the loop
reverse_head ==
  << Const("xi", Var("dvals.mode")),
     Const("lambda", Div(one, Fn("sqrt", Neg(Var("dvals.Hess"))))),
     Const("mult", Mul(M_SQRT2, Var("lambda"))),
     Const("px[0]", zero),
     Const("px[1]", zero),
     Const("px[2]", zero) >>

\* the body of for(unsigned i = 0; i < xw_type.x.size(); ++i)
reverse_body(Type, Fam) ==
  << Const("xx", Var("xw.x[i]")),
     Const("zz", Add(Var("xi"), Mul(Var("mult"), Var("xx")))),
     Const("dif", Sub(Var("zz"), Var("mu"))),
     Const("dif_std", Div(Var("dif"), Var("sig"))),
     Const("constants",
           Mul(Mul(Var("xw.w[i]"), Fam_g_of(Type, Fam, Var("zz"))),
               Fn("exp", Mul(Var("xx"), Var("xx"))))),
     Const("dnrm",
           Fn("exp", Div(Mul(Neg(Var("dif_std")), Var("dif_std")), two))),
     Const("ddnrm", Neg(Var("dnrm"))),
     Const("pnrm", Fn("pnorm", Mul(Var("rho"), Var("dif")))),
     Const("dpnrm", Fn("dnorm1", Mul(Var("rho"), Var("dif")))),
     Const("px[0]",
           Sub(Var("px[0]"),
               Mul(Var("constants"),
                   Add(Mul(Mul(Div(Var("dif_std"), Var("sig")), Var("ddnrm")),
                           Var("pnrm")),
                       Mul(Mul(Var("rho"), Var("dnrm")), Var("dpnrm")))))),
     Const("px[1]",
           Sub(Var("px[1]"),
               Mul(Div(Mul(Mul(Var("constants"), Var("pnrm")),
                           Sub(Mul(Var("dif_std"), Var("dif_std")), one)),
                       Var("sig")),
                   Var("ddnrm")))),
     Const("px[2]",
           Add(Var("px[2]"),
               Mul(Mul(Mul(Var("constants"), Var("dnrm")), Var("dpnrm")),
                   Var("dif")))) >>

\* Type const fac = Type(M_2_SQRTPI) * lambda / sig;
\* px[0] *= fac * py[0]; px[1] *= fac * py[0]; px[2] *= fac * py[0];
reverse_tail_SeedDropped ==
  << Const("fac", Div(Mul(M_2_SQRTPI, Var("lambda")), Var("sig"))),
     Const("px[0]", Mul(Var("px[0]"), Mul(Var("fac"), Var("py[0]")))),
     Const("px[1]", Mul(Var("px[1]"), Var("fac"))),
     Const("px[2]", Mul(Var("px[2]"), Mul(Var("fac"), Var("py[0]")))) >>
reverse_tail ==
  << Const("fac", Div(Mul(M_2_SQRTPI, Var("lambda")), Var("sig"))),
     Const("px[0]", Mul(Var("px[0]"), Mul(Var("fac"), Var("py[0]")))),
     Const("px[1]", Mul(Var("px[1]"), Mul(Var("fac"), Var("py[0]")))),
     Const("px[2]", Mul(Var("px[2]"), Mul(Var("fac"), Var("py[0]")))) >>

\* the three sensitivities reverse writes for the seed py[0]
reverse_statements(Type, Fam, xw) ==
  dvals_of_solver(Type) \o reverse_head
    \o NodeLoop(reverse_body(Type, Fam), xw, 1) \o reverse_tail

reverse(Type, Fam, mu, sig, rho, py0, xw) ==
  Only({<<v["px[0]"], v["px[1]"], v["px[2]"]>> :
          v \in {Only({Initialise(statements, 1, ("py[0]" :> py0) @@ tx) :
                         statements \in {reverse_statements(Type, Fam, xw)},
                         tx \in {tx_of(mu, sig, rho)}})}})

\* what reverse writes for a rule of n nodes, as expressions of mu, sig,
\* rho, py[0], the mode and Hess of the solver, and the nodes and weights
reverse_expr(Type, Fam, n) ==
  LET v == ExpandBody(reverse_tail, 1,
             ExpandLoop(reverse_body(Type, Fam), n, 1,
               ExpandBody(reverse_head, 1,
                 [name \in IntegralArgNames \cup {"py[0]"} |-> Var(name)])))
  IN <<v["px[0]"], v["px[1]"], v["px[2]"]>>

\* GaussHermiteDataCached<double>(n) (gaus-hermite.h): the n-point
\* Gauss-Hermite rule, nodes in increasing order, for n up to three
GaussHermiteData(n) ==
  CASE n = 1 ->
         [x |-> <<zero>>, w |-> <<Lit("sqrt(pi)", 14868420, -23, TRUE)>>]
    [] n = 2 ->
         [x |-> <<Neg(Lit("sqrt(1/2)", 11863283, -24, TRUE)),
                  Lit("sqrt(1/2)", 11863283, -24, TRUE)>>,
          w |-> <<Lit("sqrt(pi)/2", 14868420, -24, TRUE),
                  Lit("sqrt(pi)/2", 14868420, -24, TRUE)>>]
    [] OTHER ->
         [x |-> <<Neg(Lit("sqrt(3/2)", 10273904, -23, TRUE)), zero,
                  Lit("sqrt(3/2)", 10273904, -23, TRUE)>>,
          w |-> <<Lit("sqrt(pi)/6", 9912280, -25, TRUE),
                  Lit("2sqrt(pi)/3", 9912280, -23, TRUE),
                  Lit("sqrt(pi)/6", 9912280, -25, TRUE)>>]

GaussHermiteDataCached(n) ==
  LET hd == GaussHermiteData(n)
  IN [x |-> [i \in 1..n |-> Eval(hd.x[i], NoEnv)],
      w |-> [i \in 1..n |-> Eval(hd.w[i], NoEnv)]]

(***************************************************************************)
(* An integral_atomic object on its own: it is made for a Type, a family   *)
(* and a rule size, and forward or reverse is called on it once with the   *)
(* argument vector tx = (mu, sigma, rho).                                  *)
(***************************************************************************)
\* mu runs over the integers below, sigma over the powers of two with an
\* exponent up to MaxIntSigmaExp either way, rho over -1, 0, 1, the seed
\* py[0] over the integers 0 .. MaxSeed, the order q over 0 and 1
MaxIntSigmaExp == 1
MaxSeed == 2
IntMuValues == {FlFromInt(i) : i \in {-1, 0, 1, 29, 30, 31}}
IntSigmaValues ==
  {FlPow2(1, j) : j \in (0 - MaxIntSigmaExp)..MaxIntSigmaExp}
IntRhoValues == {FlFromInt(i) : i \in {-1, 0, 1}}
Seeds == {FlFromInt(i) : i \in 0..MaxSeed}

NotCalled == [called |-> FALSE]

\* forward: if(q > 0) return false;
\*          ty[0] = Type(comp(tx[0], tx[1], tx[2], xw_double)); return true;
Call_forward(q) ==
  /\ ~int_call.fwd.called /\ ~int_call.rev.called
  /\ IF q > 0
       THEN int_call' = [int_call EXCEPT
                           !.fwd = [called |-> TRUE, q |-> q, ok |-> FALSE]]
       ELSE \A xw_double \in {GaussHermiteData(int_call.n)} :
              int_call' =
                [int_call EXCEPT !.fwd =
                   [called |-> TRUE, q |-> q, ok |-> TRUE,
                    ty |-> <<comp(int_call.Fam, int_call.tx[1],
                                  int_call.tx[2], int_call.tx[3],
                                  xw_double)>>]]
  /\ UNCHANGED <<gamma_calls, hess_call, g_call, off_call, va_call,
               ent_call>>

\* reverse: if(q > 0) return false;  ... return true;
Call_reverse(q, py0) ==
  /\ ~int_call.fwd.called /\ ~int_call.rev.called
  /\ IF q > 0
       THEN int_call' = [int_call EXCEPT
                           !.rev = [called |-> TRUE, q |-> q, ok |-> FALSE,
                                    py |-> <<py0>>]]
       ELSE \A xw_type \in {GaussHermiteData(int_call.n)} :
              int_call' =
                [int_call EXCEPT !.rev =
                   [called |-> TRUE, q |-> q, ok |-> TRUE, py |-> <<py0>>,
                    px |-> reverse(int_call.Type, int_call.Fam,
                                   int_call.tx[1], int_call.tx[2],
                                   int_call.tx[3], py0, xw_type)]]
  /\ UNCHANGED <<gamma_calls, hess_call, g_call, off_call, va_call,
               ent_call>>

InitIntegral ==
  /\ CacheInit /\ UnpackIdle
  /\ gamma_calls = <<>>
  /\ hess_call = NoHessCall
  /\ g_call = NoGCall
  /\ off_call = NoOffCall
  /\ va_call = NoVACall
  /\ ent_call = NoEntCall
  /\ \E Type \in Types, Fam \in Families, n \in 1..n_cache,
        mu \in IntMuValues, sigma \in IntSigmaValues, rho \in IntRhoValues :
       int_call = [Type |-> Type, Fam |-> Fam, n |-> n,
                   tx |-> <<mu, sigma, rho>>,
                   fwd |-> NotCalled, rev |-> NotCalled]

NextIntegral ==
  \/ \E q \in 0..1 : Call_forward(q) /\ UNCHANGED notNumVars
  \/ \E q \in 0..1, py0 \in Seeds :
       Call_reverse(q, py0) /\ UNCHANGED notNumVars

SpecIntegral == InitIntegral /\ [][NextIntegral]_vars

(***************************************************************************)
(* The logistic integrand on its own: one of its overloads is called once  *)
(* with some argument.                                                     *)
(***************************************************************************)
\* the older mlogit_integral: fac = CppAD::CondExpGe(xo, too_large, xo,
\*                                                  log(one + exp(xo)))
mlogit_integral_fac(xo) ==
  CondGe(xo, too_large, xo, Fn("log", Add(one, Fn("exp", xo))))

Overloads == {"mlogit_fam::g(double)", "mlogit_fam::g<T>", "mlogit_integral"}

Overload_g(overload, eta) ==
  CASE overload = "mlogit_fam::g(double)" -> mlogit_fam_g(eta)
    [] overload = "mlogit_fam::g<T>" -> mlogit_fam_g_T(eta)
    [] overload = "mlogit_integral" -> mlogit_integral_fac(eta)

\* which operand a conditional expression returns: x ("then") or y ("else")
Branch(t, env) ==
  IF Eval([t EXCEPT !.x = Val(1), !.y = Val(0)], env) = FlFromInt(1)
    THEN "x" ELSE "y"

\* the arguments tried are the multiples of 1/2 up to MaxEta either way
MaxEta == 35
EtaValues == {FlRound(IF i < 0 THEN -1 ELSE 1, IF i < 0 THEN 0 - i ELSE i,
                      -1, FALSE) : i \in (0 - 2 * MaxEta)..(2 * MaxEta)}

Call_g(overload) ==
  /\ ~g_call.made
  /\ LET t == Overload_g(overload, Var("eta"))
         env == [name \in {"eta"} |-> g_call.eta]
     IN g_call' = [made |-> TRUE, eta |-> g_call.eta, overload |-> overload,
                   branch |-> Branch(t, env), val |-> Eval(t, env)]
  /\ UNCHANGED <<gamma_calls, hess_call, int_call, off_call, va_call,
               ent_call>>

InitLogistic ==
  /\ CacheInit /\ UnpackIdle
  /\ gamma_calls = <<>>
  /\ hess_call = NoHessCall
  /\ int_call = NoIntCall
  /\ off_call = NoOffCall
  /\ va_call = NoVACall
  /\ ent_call = NoEntCall
  /\ \E eta \in EtaValues : g_call = [made |-> FALSE, eta |-> eta]

NextLogistic == \E o \in Overloads : Call_g(o) /\ UNCHANGED notNumVars

SpecLogistic == InitLogistic /\ [][NextLogistic]_vars

\* C15: every overload of the logistic integrand returns its argument z
\* exactly when z exceeds 30 and log(1 + exp(z)) otherwise, so all of them
\* take the same branch for every z, z = 30 included.
C15_SameBranch ==
  g_call.made =>
    /\ (g_call.branch = "x") <=> FlLt(Eval(too_large, NoEnv), g_call.eta)
    /\ g_call.branch = "x" => g_call.val = g_call.eta
    /\ \A o \in Overloads :
         Branch(Overload_g(o, Var("eta")),
                [name \in {"eta"} |-> g_call.eta]) = g_call.branch

(***************************************************************************)
(* The integrals with an offset, for double: one of them is called once.   *)
(***************************************************************************)
\* a call of inline double mlogit_integral(mu, sigma, rho, n_nodes) or of
\* inline double probit_integral(mu, sigma, rho, n_nodes)
InnerCall(Fam, mu, sigma, rho, n_nodes) ==
  [Fam |-> Fam, mu |-> mu, sigma |-> sigma, rho |-> rho,
   n_nodes |-> n_nodes]

\* the call is made: what it was called with is kept next to what it
\* returns
integral(call) ==
  [mu |-> call.mu, sigma |-> call.sigma, rho |-> call.rho,
   n_nodes |-> call.n_nodes,
   val |-> comp(call.Fam, call.mu, call.sigma, call.rho,
                GaussHermiteData(call.n_nodes))]

\* Type const mu_use = mu + log_k;
\* return mlogit_integral(mu_use, sigma, rho, n_nodes);
mlogit_integral(mu, sigma, rho, log_k, n_nodes) ==
  InnerCall("mlogit_fam", FlAdd(mu, log_k), sigma, rho, n_nodes)

\* return probit_integral(k - mu, sigma, -rho, n_nodes);
probit_integral_RhoKept(mu, sigma, rho, k, n_nodes) ==
  InnerCall("probit_fam", FlSub(k, mu), sigma, rho, n_nodes)
probit_integral(mu, sigma, rho, k, n_nodes) ==
  InnerCall("probit_fam", FlSub(k, mu), sigma, FlNeg(rho), n_nodes)

\* the offsets tried are the integers up to MaxOffset either way
MaxOffset == 1
OffsetValues == {FlFromInt(i) : i \in (0 - MaxOffset)..MaxOffset}
OffMuValues == {FlFromInt(i) : i \in {0, 1, 30}}

Call_offset ==
  /\ ~off_call.made
  /\ \A a \in {off_call.args} :
       \A call \in {IF off_call.Fam = "mlogit_fam"
                      THEN mlogit_integral(a.mu, a.sigma, a.rho, a.k,
                                           a.n_nodes)
                      ELSE probit_integral(a.mu, a.sigma, a.rho, a.k,
                                           a.n_nodes)} :
         off_call' = [off_call EXCEPT !.made = TRUE,
                                      !.inner = integral(call)]
  /\ UNCHANGED <<gamma_calls, hess_call, int_call, g_call, va_call,
               ent_call>>

InitOffset ==
  /\ CacheInit /\ UnpackIdle
  /\ gamma_calls = <<>>
  /\ hess_call = NoHessCall
  /\ int_call = NoIntCall
  /\ g_call = NoGCall
  /\ va_call = NoVACall
  /\ ent_call = NoEntCall
  /\ \E Fam \in Families, n \in 1..n_cache, mu \in OffMuValues,
        sigma \in IntSigmaValues, rho \in IntRhoValues, k \in OffsetValues :
       off_call = [made |-> FALSE, Fam |-> Fam,
                   args |-> [mu |-> mu, sigma |-> sigma, rho |-> rho,
                             k |-> k, n_nodes |-> n],
                   inner |-> [val |-> FlZero(1)]]

NextOffset == Call_offset /\ UNCHANGED notNumVars

SpecOffset == InitOffset /\ [][NextOffset]_vars

\* C16: mlogit_integral(mu, sigma, rho, log_k, n) is
\* mlogit_integral(mu + log_k, sigma, rho, n) and
\* probit_integral(mu, sigma, rho, k, n) is
\* probit_integral(k - mu, sigma, -rho, n): sigma and n are passed on
\* unchanged, and what the inner call returns is returned.
C16_Offsets ==
  off_call.made =>
    LET a == off_call.args
        in == off_call.inner
    IN /\ in.sigma = a.sigma
       /\ in.n_nodes = a.n_nodes
       /\ off_call.Fam = "mlogit_fam" =>
            /\ in.mu = FlAdd(a.mu, a.k)
            /\ in.rho = a.rho
       /\ off_call.Fam = "probit_fam" =>
            /\ in.mu = FlSub(a.k, a.mu)
            /\ in.rho = FlNeg(a.rho)
       /\ in.val = comp(off_call.Fam, in.mu, in.sigma, in.rho,
                        GaussHermiteData(in.n_nodes))

\* probit_integral was called with an offset and a rho that are not zero
C16_Witness ==
  /\ off_call.made
  /\ off_call.Fam = "probit_fam"
  /\ off_call.args.k = FlFromInt(1)
  /\ off_call.args.rho = FlFromInt(1)
  /\ off_call.inner.rho = FlFromInt(-1)

(***************************************************************************)
(* The unpacked values as numbers, checked under SpecUnpack.               *)
(***************************************************************************)
\* values for the decoded covariance matrix of a group: d on the diagonal,
\* c off it
SigmaDiag == {FlPow2(1, -2), FlFromInt(1), FlFromInt(3)}
SigmaOff == {FlFromInt(-1), FlZero(1), FlPow2(1, -1)}
SigmaEnv(r, d, c) ==
  [name \in {VcovName(i, j) : i \in 0..(r - 1), j \in 0..(r - 1)} |->
     IF \E i \in 0..(r - 1) : name = VcovName(i, i) THEN d ELSE c]

\* the transformed skew values of group g are all 0
ZeroSkew(g) ==
  \A i \in 1..rng_dim :
    theta_VA[(g - 1) * BlockSize(rng_dim) + rng_dim
               + n_lambda_of(rng_dim) + i] = 0

\* C28: for a group whose transformed skew values are all 0, with
\* gamma_to_nu(0) = 0, SNVA_MD_theta_CP_trans_to_DP returns rho = 0 in every
\* dimension, the mean of the input and the covariance matrix decoded from
\* the packed values: the mean and the covariance matrix
\* SNVA_MD_theta_DP_to_DP returns for that block.
C28_ZeroSkew ==
  (Returned /\ u_out.fn = "CP_trans_to_DP") =>
    LET r == rng_dim
        B == BlockSize(r)
        v == u_out.val
    IN \A dp \in {SNVA_MD_theta_DP_to_DP(theta_VA, r)} :
         \A g \in 1..Len(v.va_mus) :
           ZeroSkew(g) =>
             \A d \in SigmaDiag, c \in SigmaOff :
               \A env \in {SigmaEnv(r, d, c)} :
                 /\ \A i \in 1..r :
                      /\ Eval(v.va_rhos[g][i], env) = FlZero(1)
                      /\ Eval(v.va_mus[g][i], env)
                           = FlFromInt(theta_VA[(g - 1) * B + i])
                      /\ dp.va_mus[g][i] = theta_VA[(g - 1) * B + i]
                 /\ \A i \in 0..(r - 1), j \in 0..(r - 1) :
                      /\ Eval(v.va_lambdas[g][i, j], env)
                           = Eval(dp.va_lambdas[g][i, j], env)
                      /\ dp.va_lambdas[g][i, j].op = "vcov"
                      /\ dp.va_lambdas[g][i, j].packed =
                           [k \in 1..n_lambda_of(r) |->
                              theta_VA[(g - 1) * B + r + k]]

\* a group of dimension two with zero skew, a mean and packed values that
\* are not all zero, next to a group whose skew is not zero
C28_Witness ==
  /\ Returned /\ u_out.fn = "CP_trans_to_DP"
  /\ rng_dim = 2
  /\ Len(u_out.val.va_mus) >= 1
  /\ ZeroSkew(1)
  /\ theta_VA[1] = 1 /\ theta_VA[3] = 1
  /\ Eval(u_out.val.va_rhos[1][2],
          SigmaEnv(2, FlFromInt(3), FlPow2(1, -1))) = FlZero(1)

(***************************************************************************)
(* The Gaussian case of the integral, rho = 0, checked under SpecHess.     *)
(***************************************************************************)
\* what comp and reverse compute before the loop from the result of the
\* call of the solver
HeadOfCall ==
  Initialise(comp_head, 1,
             ("sig" :> hess_call.sigma)
               @@ ("dvals.mode" :> hess_call.dvals.mode)
               @@ ("dvals.Hess" :> hess_call.dvals.Hess) @@ hess_call.consts)

\* xx, zz and dif of node i of the rule with n nodes
NodeOfCall(n, i) ==
  Initialise(SubSeq(comp_body("mlogit_fam"), 1, 3), 1,
             ("xw.x[i]" :> GaussHermiteDataCached(n).x[i]) @@ HeadOfCall)

\* exp(xx * xx - dif * dif / 2. / sig / sig), the factor of the summand
ReweightingFactor == comp_body("mlogit_fam")[4].init.b.a.b

\* C23: with rho = 0, for every mu and sigma > 0, the solver returns
\* mode = mu and Hess = -1 / sigma^2, so that lambda = sigma, the nodes are
\* zz = mu + M_SQRT2 * sigma * xx, and the factor
\* exp(xx * xx - dif * dif / 2 / sig / sig) is 1 at every node where the
\* model knows the value of exp.
C23_GaussianCase ==
  (hess_call.made /\ IsZero(hess_call.rho)) =>
    LET mu == hess_call.mu
        sigma == hess_call.sigma
    IN /\ FlLt(FlZero(1), sigma)
       /\ hess_call.dvals.mode = mu
       /\ FlMul(FlMul(hess_call.dvals.Hess, sigma), sigma) = FlFromInt(-1)
       /\ HeadOfCall["lambda"] = sigma
       /\ \A n \in 1..n_cache : \A i \in 1..n :
            \A e \in {NodeOfCall(n, i)} :
              /\ e["zz"] =
                   FlAdd(mu, FlMul(FlMul(Eval(M_SQRT2, e), sigma), e["xx"]))
              /\ \A f \in {Eval(ReweightingFactor, e)} :
                   ~IsUnknown(f) => f = FlFromInt(1)

(***************************************************************************)
(* Claims about the integral, checked under SpecIntegral.                  *)
(***************************************************************************)
\* the values an expression of the integral is evaluated with: the
\* arguments of the call, the result of the solver and the rule
IntegralEnv ==
  Only({("x" :> xw.x) @@ ("w" :> xw.w) @@ a :
          xw \in {GaussHermiteDataCached(int_call.n)},
          a \in {IntegralArgs(int_call.tx[1], int_call.tx[2],
                              int_call.tx[3])}})

\* C12: for every (mu, sigma > 0, rho), family and rule, the value forward
\* gets from comp is
\*   (2 / sqrt(pi)) (lambda / sigma)
\*     sum_i w_i g(z_i) exp(x_i^2 - (z_i - mu)^2 / (2 sigma^2))
\*           Phi(rho (z_i - mu))
\* with (xi, Hess) from the solver, lambda = 1 / sqrt(-Hess) and
\* z_i = xi + sqrt(2) lambda x_i: as a formula, and as the number forward
\* returned where the model knows it.
C12_CompFormula ==
  (int_call.fwd.called /\ int_call.fwd.ok) =>
    LET lambda == Div(one, Fn("sqrt", Neg(Var("dvals.Hess"))))
        z(i) == Add(Var("dvals.mode"),
                    Mul(Mul(M_SQRT2, lambda), Node("x", i)))
        dif(i) == Sub(z(i), Var("mu"))
        term(i) ==
          Mul(Mul(Mul(Node("w", i), Fam_g(int_call.Fam, z(i))),
                  Fn("exp",
                     Sub(Mul(Node("x", i), Node("x", i)),
                         Div(Mul(dif(i), dif(i)),
                             Mul(two, Mul(Var("sig"), Var("sig"))))))),
              Fn("pnorm", Mul(Var("rho"), dif(i))))
        sum[i \in 0..int_call.n] ==
          IF i = 0 THEN zero ELSE Add(sum[i - 1], term(i))
        formula ==
          Mul(Mul(M_2_SQRTPI, Div(lambda, Var("sig"))), sum[int_call.n])
    IN /\ Canon(comp_expr(int_call.Fam, int_call.n)) = Canon(formula)
       /\ ~IsUnknown(int_call.fwd.ty[1]) =>
            int_call.fwd.ty[1] = Eval(formula, IntegralEnv)

\* forward returned a known number that is not zero (rho = 0, one node)
C12_Witness ==
  /\ int_call.fwd.called /\ int_call.fwd.ok
  /\ int_call.n = 1
  /\ IsFin(int_call.fwd.ty[1]) /\ ~IsZero(int_call.fwd.ty[1])
  /\ int_call.tx[3] = FlZero(1)

\* C14: the sensitivities reverse writes are linear in the seed py[0]: each
\* px[k] is py[0] times what it is for the seed 1 (as a formula); the seed 0
\* gives three zeros (as numbers, where the model knows them); and exactly
\* three sensitivities are written.
C14_LinearInSeed ==
  (int_call.rev.called /\ int_call.rev.ok) =>
    LET seed_one == [name \in IntegralArgNames \cup {"py[0]"} |->
                       IF name = "py[0]" THEN one ELSE Var(name)]
    IN /\ DOMAIN int_call.rev.px = 1..3
       /\ \A expr \in {reverse_expr(int_call.Type, int_call.Fam,
                                    int_call.n)} :
            \A k \in 1..3 :
              Canon(expr[k]) =
                Canon(Mul(Var("py[0]"), Expand(expr[k], seed_one)))
       /\ \A k \in 1..3 :
            (IsZero(int_call.rev.py[1])
                  /\ ~IsUnknown(int_call.rev.px[k])) =>
                 IsZero(int_call.rev.px[k])

\* reverse wrote a known sensitivity that is not zero for the seed 2
C14_Witness ==
  /\ int_call.rev.called /\ int_call.rev.ok
  /\ int_call.rev.py[1] = FlFromInt(2)
  /\ IsFin(int_call.rev.px[2]) /\ ~IsZero(int_call.rev.px[2])

\* the Gaussian expectation of g by the plain rule:
\*   (1 / sqrt(pi)) sum_i w_i g(mu + sqrt(2) sigma x_i)
GaussianExpectation(Fam, n) ==
  LET term(i) ==
        Mul(Node("w", i),
            Fam_g(Fam, Add(Var("mu"),
                           Mul(Mul(M_SQRT2, Var("sig")), Node("x", i)))))
      sum[i \in 0..n] == IF i = 0 THEN zero ELSE Add(sum[i - 1], term(i))
  IN Mul(Lit("1/sqrt(pi)", 9465530, -24, TRUE), sum[n])

\* forward returned a number the model knows for the probit family, rho = 0
ProbitRhoZero ==
  /\ int_call.fwd.called /\ int_call.fwd.ok
  /\ int_call.Fam = "probit_fam"
  /\ IsZero(int_call.tx[3])
  /\ ~IsUnknown(int_call.fwd.ty[1])

MaxPara == 1
MaxEvals == 2
MaxPoints == 2

AppTypes == {"GVA", "SNVA", "Laplace", "gva"}
ParamTypes == {"DP", "CP_trans", "CP"}

Elements(name, n) == [i \in 1..n |-> [name |-> name, i |-> i - 1]]

\* the two overloads of get_args_va: eps, kappa, then b, theta, theta_VA
get_args_va(eps_in, kappa_in, b, theta, theta_va) ==
  <<eps_in, kappa_in>> \o b \o theta \o theta_va

n_para(w) == 2 + Len(w.b) + Len(w.theta) + Len(w.theta_VA)

NoError == [msg |-> "", s |-> ""]
InvalidArgs == [msg |-> "VA_worker: invalid args length", s |-> ""]
NotImplemented(app_type) ==
  [msg |-> "VA_worker<Type>: approximation method '%s' is not implemented",
   s |-> app_type]

Raised(err, calls) == [error |-> err, calls |-> calls, returned |-> NoResult]
Result(calls) ==
  [error |-> NoError, calls |-> calls,
   returned |-> [kind |-> "result", terms |-> calls]]

\* (unsigned)args.size(): the size modulo 2^32, computed by halves of 16
\* bits
HalfWord == 2 ^ 16
Unsigned(n) == (n % HalfWord) + HalfWord * ((n \div HalfWord) % HalfWord)

ArgsSplit_ThetaFirst(w, args) ==
  LET n_b == Len(w.b)
      n_t == Len(w.theta)
      n_v == Len(w.theta_VA)
  IN [eps |-> args[1], kappa |-> args[2],
      theta |-> SubSeq(args, 3, 2 + n_t),
      b |-> SubSeq(args, 3 + n_t, 2 + n_t + n_b),
      theta_VA |-> SubSeq(args, 3 + n_b + n_t, 2 + n_b + n_t + n_v)]

\* the arguments of the evaluation, split as operator() splits them
ArgsSplit(w, args) ==
  LET n_b == Len(w.b)
      n_t == Len(w.theta)
      n_v == Len(w.theta_VA)
  IN [eps |-> args[1], kappa |-> args[2],
      b |-> SubSeq(args, 3, 2 + n_b),
      theta |-> SubSeq(args, 3 + n_b, 2 + n_b + n_t),
      theta_VA |-> SubSeq(args, 3 + n_b + n_t, 2 + n_b + n_t + n_v)]

COMMON_CALL(a) == [eps |-> a.eps, kappa |-> a.kappa, b |-> a.b,
                   theta |-> a.theta]

GVA(common, theta_va, n_nodes) ==
  [fn |-> "GVA", common |-> common, theta_VA |-> theta_va,
   n_nodes |-> n_nodes]

SNVA(common, theta_va, n_nodes, param_type) ==
  [fn |-> "SNVA", common |-> common, theta_VA |-> theta_va,
   n_nodes |-> n_nodes, param_type |-> param_type]

VA_worker_call_TagIgnored(w, args) ==
  IF Unsigned(Len(args)) # n_para(w) THEN Raised(InvalidArgs, <<>>)
  ELSE LET a == ArgsSplit(w, args)
       IN Result(<<GVA(COMMON_CALL(a), a.theta_VA, w.n_nodes)>>)

\* VA_worker<Type>::operator()
VA_worker_call(w, args) ==
  IF Unsigned(Len(args)) # n_para(w) THEN Raised(InvalidArgs, <<>>)
  ELSE LET a == ArgsSplit(w, args)
       IN IF w.app_type = "GVA"
            THEN Result(<<GVA(COMMON_CALL(a), a.theta_VA, w.n_nodes)>>)
          ELSE IF w.app_type = "SNVA"
            THEN Result(<<SNVA(COMMON_CALL(a), a.theta_VA, w.n_nodes,
                               w.param_type)>>)
          ELSE Raised(NotImplemented(w.app_type), <<>>)

\* CppAD::ADFun<double> func after func.Dependent(args, y): the operations
\* recorded between Independent(args) and Dependent, the number of
\* independent variables, and x, the point of the zero order forward sweep
\* its coefficients stand at
ADFun(args, y) == [tape |-> y, n |-> Len(args), x |-> args]

\* func.Forward(0, parv): the zero order sweep at parv; its result is kept
\* in the object
Forward0_Skipped(func, parv) == func
Forward0(func, parv) == [func EXCEPT !.x = parv]

\* y[0]: what the recorded operations give at the point of the sweep
Value(func) == [tape |-> func.tape, at |-> func.x]

\* func.Reverse(1, w): for every independent variable the derivative of
\* w[0] * y[0] at the point of the last forward sweep
Reverse1(func, w) ==
  [i \in 1..func.n |->
     [d |-> Value(func), wrt |-> i - 1, weight |-> w[1]]]

Workers ==
  [app_type : AppTypes, param_type : ParamTypes, n_nodes : 1..n_cache,
   eps : {[name |-> "eps", i |-> 0]}, kappa : {[name |-> "kappa", i |-> 0]},
   b : {Elements("b", n) : n \in 0..MaxPara},
   theta : {Elements("theta", n) : n \in 0..MaxPara},
   theta_VA : {Elements("theta_VA", n) : n \in 0..MaxPara}]

\* VA_func::VA_func, called by get_VA_funcs: the worker is evaluated once
\* on its own arguments; the object exists only if that evaluation returned
Call_VA_func ==
  /\ ~va_call.made
  /\ LET w == va_call.w
         args == get_args_va(w.eps, w.kappa, w.b, w.theta, w.theta_VA)
         r == VA_worker_call(w, args)
     IN va_call' = [made |-> TRUE, w |-> w, args |-> args, eval |-> r,
                    func |-> IF r.error = NoError
                               THEN <<ADFun(args, r.returned)>>
                             ELSE <<>>,
                    lb |-> <<>>, grad |-> <<>>]
  /\ UNCHANGED <<gamma_calls, hess_call, int_call, g_call, off_call,
                 ent_call>>

\* vector<double> parv = get_vec<double>(par): the parameter vectors tried
\* are the points 1 .. MaxPoints, each with one element per parameter
ParV(n, p) == [i \in 1..n |-> [point |-> p, i |-> i - 1]]

\* VA_funcs_eval_lb(p, par): auto y = ptr->func.Forward(0, parv);
\*                           return y[0];
Call_VA_funcs_eval_lb(p) ==
  /\ va_call.made
  /\ va_call.func # <<>>
  /\ Len(va_call.lb) + Len(va_call.grad) < MaxEvals
  /\ LET parv == ParV(va_call.func[1].n, p)
         f == Forward0(va_call.func[1], parv)
     IN va_call' = [va_call EXCEPT
                      !.func = <<f>>,
                      !.lb = Append(@, [par |-> parv, value |-> Value(f)])]
  /\ UNCHANGED <<gamma_calls, hess_call, int_call, g_call, off_call,
                 ent_call>>

\* VA_funcs_eval_grad(p, par): ptr->func.Forward(0, parv); w[0] = 1;
\*   vector<double> grad = ptr->func.Reverse(1, w);
\*   out[i] = grad[i] for i < grad.size(); return out;
Call_VA_funcs_eval_grad(p) ==
  /\ va_call.made
  /\ va_call.func # <<>>
  /\ Len(va_call.lb) + Len(va_call.grad) < MaxEvals
  /\ LET parv == ParV(va_call.func[1].n, p)
         f == Forward0(va_call.func[1], parv)
         w == <<1>>
         grad == Reverse1(f, w)
         n == Len(grad)
         out == [i \in 1..n |-> grad[i]]
     IN va_call' = [va_call EXCEPT
                      !.func = <<f>>,
                      !.grad = Append(@, [par |-> parv, out |-> out])]
  /\ UNCHANGED <<gamma_calls, hess_call, int_call, g_call, off_call,
                 ent_call>>

InitWorker ==
  /\ CacheInit
  /\ UnpackIdle
  /\ gamma_calls = <<>>
  /\ hess_call = NoHessCall
  /\ int_call = NoIntCall
  /\ g_call = NoGCall
  /\ off_call = NoOffCall
  /\ ent_call = NoEntCall
  /\ \E w \in Workers : va_call = [made |-> FALSE, w |-> w]

NextWorker ==
  \/ Call_VA_func /\ UNCHANGED notNumVars
  \/ \E p \in 1..MaxPoints :
       Call_VA_funcs_eval_lb(p) /\ UNCHANGED notNumVars
  \/ \E p \in 1..MaxPoints :
       Call_VA_funcs_eval_grad(p) /\ UNCHANGED notNumVars

SpecWorker == InitWorker /\ [][NextWorker]_vars

\* C18: an evaluation of the worker runs exactly one accumulation, GVA
\* for the tag "GVA" and SNVA, given the worker's param_type, for the tag
\* "SNVA"; for every other tag it raises the 'not implemented' error,
\* runs no accumulation and no lower-bound value is ever returned.
C18_Dispatch ==
  va_call.made =>
    LET w == va_call.w
        r == va_call.eval
    IN /\ w.app_type = "GVA" =>
            /\ r.error = NoError
            /\ Len(r.calls) = 1
            /\ r.calls[1].fn = "GVA"
            /\ r.returned = [kind |-> "result", terms |-> r.calls]
       /\ w.app_type = "SNVA" =>
            /\ r.error = NoError
            /\ Len(r.calls) = 1
            /\ r.calls[1].fn = "SNVA"
            /\ r.calls[1].param_type = w.param_type
            /\ r.returned = [kind |-> "result", terms |-> r.calls]
       /\ w.app_type \notin {"GVA", "SNVA"} =>
            /\ r.error = NotImplemented(w.app_type)
            /\ r.calls = <<>>
            /\ r.returned = NoResult
            /\ va_call.func = <<>>
            /\ va_call.lb = <<>>
            /\ va_call.grad = <<>>

C18_Witness ==
  /\ va_call.made
  /\ va_call.w.app_type = "SNVA"
  /\ va_call.w.param_type = "CP_trans"
  /\ Len(va_call.eval.calls) = 1
  /\ Len(va_call.lb) = MaxEvals

(***************************************************************************)
(* operator() on any argument vector, checked under SpecOperator.  The     *)
(* vector is what get_args_va packs from five inputs whose lengths need    *)
(* not be those of the worker, or the start of it, so that vectors of      *)
(* every length from none to too many elements are tried.                  *)
(***************************************************************************)
Inputs ==
  [eps : {[name |-> "eps", i |-> 0]}, kappa : {[name |-> "kappa", i |-> 0]},
   b : {Elements("b", n) : n \in 0..MaxPara},
   theta : {Elements("theta", n) : n \in 0..MaxPara},
   theta_VA : {Elements("theta_VA", n) : n \in 0..MaxPara}]

InitOperator ==
  /\ CacheInit
  /\ UnpackIdle
  /\ gamma_calls = <<>>
  /\ hess_call = NoHessCall
  /\ int_call = NoIntCall
  /\ g_call = NoGCall
  /\ off_call = NoOffCall
  /\ ent_call = NoEntCall
  /\ \E w \in Workers, in \in Inputs :
       LET packed == get_args_va(in.eps, in.kappa, in.b, in.theta,
                                 in.theta_VA)
       IN \E len \in {0, 1, Len(packed)} :
            va_call = [made |-> FALSE, w |-> w, inputs |-> in,
                       args |-> SubSeq(packed, 1, len)]

\* Type operator()(vector<Type> &args)
Call_operator ==
  /\ ~va_call.made
  /\ va_call' = [made |-> TRUE, w |-> va_call.w, inputs |-> va_call.inputs,
                 args |-> va_call.args,
                 eval |-> VA_worker_call(va_call.w, va_call.args)]
  /\ UNCHANGED <<gamma_calls, hess_call, int_call, g_call, off_call,
                 ent_call>>

NextOperator == Call_operator /\ UNCHANGED notNumVars

SpecOperator == InitOperator /\ [][NextOperator]_vars

SameLengths(w, in) ==
  /\ Len(in.b) = Len(w.b)
  /\ Len(in.theta) = Len(w.theta)
  /\ Len(in.theta_VA) = Len(w.theta_VA)

C29_RoundTripReached ==
  /\ va_call.made
  /\ "inputs" \in DOMAIN va_call
  /\ va_call.w.app_type = "SNVA"
  /\ Len(va_call.args) = 2 + 3 * MaxPara
  /\ va_call.eval.error = NoError
  /\ va_call.eval.calls[1].common.theta = va_call.inputs.theta
  /\ va_call.eval.calls[1].common.b = va_call.inputs.b

\* C30: in every sequence of VA_funcs_eval_lb and VA_funcs_eval_grad calls
\* on one VA_func, the gradient a VA_funcs_eval_grad(par) call returns is
\* the derivative, with weight 1, of the recorded function at the par of
\* that call, whatever the calls before it were made with, and it has one
\* component per parameter, n_para of them.
C30_GradientAtOwnPar ==
  va_call.made =>
    \A k \in DOMAIN va_call.grad :
      LET g == va_call.grad[k]
      IN /\ Len(g.out) = n_para(va_call.w)
         /\ Len(g.out) = Len(g.par)
         /\ \A i \in DOMAIN g.out :
              /\ g.out[i].d.at = g.par
              /\ g.out[i].d.tape = va_call.eval.returned
              /\ g.out[i].wrt = i - 1
              /\ g.out[i].weight = 1

\* a gradient at one point is asked for after a lower bound at another
C30_Witness ==
  /\ va_call.made
  /\ Len(va_call.lb) = 1 /\ Len(va_call.grad) = 1
  /\ va_call.lb[1].par # va_call.grad[1].par
  /\ va_call.func[1].x = va_call.grad[1].par
  /\ Len(va_call.grad[1].out) = 2 + 3 * MaxPara

(***************************************************************************)
(* History independence of the cache, checked under Spec.  Two calls that  *)
(* end one after the other with the same cache and the same n are two      *)
(* calls with the same inputs; the entries that exist and the calls made   *)
(* before them are whatever the behaviour has done so far.                 *)
(***************************************************************************)
SameInputs ==
  /\ last.kind # "none"
  /\ last' # last
  /\ last'.cache = last.cache
  /\ last'.n = last.n

SameOutcome == last'.kind = last.kind /\ last'.inst = last.inst

RepeatsFailed(t) ==
  /\ last.kind = "runtime_error"
  /\ pc[t] # "idle"
  /\ arg[t].cache = last.cache /\ arg[t].n = last.n

\* C25: a get_cached(n) that fails inside a parallel region changes no slot
\* and leaves slot n - 1 empty; the same call made again fails again while
\* the region is active, and outside of any region goes on to construct the
\* entry and returns it.
C25_FailureLeavesEmpty ==
  /\ [](last.kind = "runtime_error" =>
          /\ last.par /\ ~last.had
          /\ cached_values[last.cache][last.n - 1] = 0)
  /\ [][\A t \in Threads :
          /\ (pc[t] = "check_parallel" /\ pc'[t] = "idle") =>
               /\ in_parallel
               /\ last'.kind = "runtime_error" /\ last'.t = t
               /\ last'.cache = arg[t].cache /\ last'.n = arg[t].n
               /\ SlotsUnchanged
          /\ (RepeatsFailed(t) /\ pc[t] = "check_parallel"
                /\ pc'[t] # pc[t]) =>
               IF in_parallel
                 THEN pc'[t] = "idle" /\ last'.kind = "runtime_error"
                 ELSE pc'[t] = "construct" /\ SlotsUnchanged
          /\ (RepeatsFailed(t) /\ pc[t] = "construct" /\ pc'[t] # pc[t]) =>
               /\ ~in_parallel
               /\ last'.kind = "returned" /\ ~last'.had
               /\ last'.cache = last.cache /\ last'.n = last.n
               /\ cached_values'[last.cache][last.n - 1] = last'.inst
               /\ last'.inst # 0
               /\ \A c \in Caches, i \in Slots :
                    <<c, i>> # <<last.cache, last.n - 1>> =>
                      cached_values'[c][i] = cached_values[c][i]]_vars

\* the call that failed last is made again outside of the region and is
\* about to construct the entry, while another slot is populated
C25_Witness ==
  \E t \in Threads :
    /\ RepeatsFailed(t)
    /\ ~in_parallel
    /\ pc[t] = "construct"
    /\ \E c \in Caches, i \in Slots : cached_values[c][i] # 0

(***************************************************************************)
(* The entropy term: entropy_term(sigma_sq, hd), called once with some     *)
(* sigma_sq and the rule of some size.                                     *)
(***************************************************************************)
\* Type entropy_term(Type const sigma_sq, HermiteData<Type> const &hd): the
\* constants before the loop
entropy_term_head_Unscaled ==
  << Const("gamma", one),
     Const("gamma_sq", Mul(Var("gamma"), Var("gamma"))),
     Const("out", zero),
     Const("mult_sum",
           Div(Mul(M_2_SQRTPI, Var("gamma")),
               Fn("sqrt", Add(Var("sigma_sq"), Var("gamma_sq"))))),
     Const("mult", Div(Var("mult_sum"), Fn("sqrt", M_2_PI))) >>
entropy_term_head ==
  << Const("gamma", one),
     Const("gamma_sq", Mul(Var("gamma"), Var("gamma"))),
     Const("out", zero),
     Const("mult_sum",
           Div(Mul(M_2_SQRTPI, Var("gamma")),
               Fn("sqrt", Add(Var("sigma_sq"), Var("gamma_sq"))))),
     Const("mult",
           Div(Mul(Var("mult_sum"), Fn("sqrt", Var("sigma_sq"))),
               Fn("sqrt", M_2_PI))) >>

\* the body of for(unsigned i = 0; i < n_nodes; ++i)
entropy_term_body ==
  << Const("xi", Mul(Var("xw.x[i]"), Var("mult"))),
     Const("out",
           Add(Var("out"),
               Mul(Mul(Mul(Var("xw.w[i]"),
                           Fn("exp", Div(Div(Mul(Var("xi"), Var("xi")), two),
                                         Var("gamma_sq")))),
                       Fn("pnorm", Var("xi"))),
                   Fn("pnorm_log", Var("xi"))))) >>

\* return mult_sum * out;
entropy_term_tail == << Const("return", Mul(Var("mult_sum"), Var("out"))) >>

entropy_term_statements(hd) ==
  entropy_term_head \o NodeLoop(entropy_term_body, hd, 1)
    \o entropy_term_tail

\* the constants of entropy_term as they stand when it returns
entropy_term_consts(sigma_sq, hd) ==
  Only({Initialise(statements, 1, "sigma_sq" :> sigma_sq) :
          statements \in {entropy_term_statements(hd)}})

entropy_term(sigma_sq, hd) == entropy_term_consts(sigma_sq, hd)["return"]

\* sigma_sq runs over 0 and the powers of two with an exponent up to
\* MaxEntExp either way
MaxEntExp == 20
SigmaSqValues ==
  {FlZero(1)} \cup {FlPow2(1, j) : j \in (0 - MaxEntExp)..MaxEntExp}

Call_entropy_term ==
  /\ ~ent_call.made
  /\ \A v \in {entropy_term_consts(ent_call.sigma_sq,
                                   GaussHermiteData(ent_call.n))} :
       ent_call' = [ent_call EXCEPT !.made = TRUE, !.consts = v,
                                    !.value = v["return"]]
  /\ UNCHANGED <<gamma_calls, hess_call, int_call, g_call, off_call,
                 va_call>>

InitEntropy ==
  /\ CacheInit /\ UnpackIdle
  /\ gamma_calls = <<>>
  /\ hess_call = NoHessCall
  /\ int_call = NoIntCall
  /\ g_call = NoGCall
  /\ off_call = NoOffCall
  /\ va_call = NoVACall
  /\ \E n \in 1..n_cache, sigma_sq \in SigmaSqValues :
       ent_call = [made |-> FALSE, n |-> n, sigma_sq |-> sigma_sq,
                   consts |-> NoEnv, value |-> FlZero(1)]

NextEntropy == Call_entropy_term /\ UNCHANGED notNumVars

SpecEntropy == InitEntropy /\ [][NextEntropy]_vars

\* the names an expression reads, and the names a body reads that it has
\* not defined before
RECURSIVE Reads(_)
Reads(t) ==
  (IF t.op = "var" THEN {t.name} ELSE {})
    \cup UNION {Reads(c) : c \in Operands(t)}

FreeNames(body) ==
  UNION {Reads(body[i].init) \ {body[j].name : j \in 1..(i - 1)} :
           i \in DOMAIN body}

\* log(0.5), the value of pnorm_log at 0
LogHalf == Rf_pnorm5_log(FlZero(1))

RECURSIVE SumTo(_, _)
SumTo(f, i) == IF i = 0 THEN FlZero(1) ELSE FlAdd(SumTo(f, i - 1), f[i])

\* C24: entropy_term reads nothing but sigma_sq and the rule: no mode and no
\* Hess of the solver is among its constants; at sigma_sq = 0 every scaled
\* node xi is 0 and the value is M_2_SQRTPI times the sum of
\* w_i * 0.5 * log(0.5), which for the weights of a Gauss-Hermite rule is
\* log(0.5) = -log 2 up to rounding.
C24_EntropyAtZero ==
  ent_call.made =>
    LET hd == GaussHermiteDataCached(ent_call.n)
        v == ent_call.consts
        half == FlRound(1, 1, -1, FALSE)
        term == [i \in 1..ent_call.n |-> FlMul(FlMul(hd.w[i], half), LogHalf)]
    IN /\ FreeNames(entropy_term_statements(GaussHermiteData(ent_call.n)))
            = {"sigma_sq"}
       /\ {"mode", "Hess", "dvals.mode", "dvals.Hess"} \cap DOMAIN v = {}
       /\ IsZero(ent_call.sigma_sq) =>
            /\ IsZero(v["mult"])
            /\ \A i \in 1..ent_call.n : IsZero(FlMul(hd.x[i], v["mult"]))
            /\ ent_call.value =
                 FlMul(Eval(M_2_SQRTPI, v), SumTo(term, ent_call.n))
            /\ FlLe(FlAbs(FlSub(ent_call.value, LogHalf)),
                    FlMul(FlPow2(1, 2 - FlP), FlAbs(LogHalf)))

\* a call with sigma_sq = 0 on a rule of at least two nodes
C24_Witness ==
  /\ ent_call.made
  /\ IsZero(ent_call.sigma_sq)
  /\ ent_call.n >= 2
  /\ IsZero(ent_call.consts["xi"])
  /\ FlLt(ent_call.value, FlZero(1))

=============================================================================
